---- MODULE Spec2Model ----
(***************************************************************************)
(* Model of the convergence telemetry of HydroOpt:                         *)
(*   - ConvergenciaTracker   (src/HydroOpt/visualizador_convergencia.py)   *)
(*   - AnalisadorEstatistico (src/HydroOpt/analisador_estatistico.py)      *)
(*                                                                         *)
(* Floats are modelled by integers.  float('inf') is the integer Inf,      *)
(* larger than every finite value of the model; np.nan is the integer NaN, *)
(* which the comparison operators below treat as IEEE-754 does (every      *)
(* ordered comparison with NaN is false).  Python's None is the integer    *)
(* None.  A solution vector is identified by a positive integer.           *)
(***************************************************************************)
EXTENDS Integers, Sequences, FiniteSets, TLC

VARIABLES
    tracker,    \* the ConvergenciaTracker under observation
    novo,       \* a tracker built by ConvergenciaTracker(salvar_solucoes) at the last limpar()
    limpo,      \* TRUE once limpar() has been called on tracker
    chamada,    \* arguments of the last adicionar() call (None record before the first)
    melhores,   \* [e['melhor'] for e in self._epocas]: the best fitness of each epoch
    estag,      \* <<>>, or the last call of _detectar_estagnacao: its argument and result
    rastreio,   \* the attributes epocas and pop_size the search loop attaches to the tracker
    an,         \* the AnalisadorEstatistico, or the outcome of its failed construction
    construcao, \* arguments of the last AnalisadorEstatistico(...) call
    retorno,    \* <<>>, or the value returned by the last calcular() call
    saida       \* <<>>, or what the last call returned or wrote, for the calls that
                \* only read the tracker or the analyzer

varsTracker == <<tracker, novo, limpo, chamada>>
varsEstag == <<melhores, estag>>
varsAn == <<rastreio, an, construcao, retorno>>
vars == <<tracker, novo, limpo, chamada, melhores, estag, rastreio, an, construcao, retorno,
          saida>>

----------------------------------------------------------------------------
(* Values *)

Inf == 999
NaN == 1000
None == -1

\* bounds on the number of adicionar() calls between two limpar(): MaxEval in the
\* specifications that vary a few arguments, MaxEvalGeral in Spec, which varies all
MaxEval == 3
MaxEvalGeral == 2

\* bound on the number of epochs of a run
MaxEpocas == 7

\* bounds of SpecAnalise: adicionar() calls between two limpar(), and epochs
MaxEvalAn == 2
MaxEpocasAn == 2

\* bounds of SpecRanking: epochs, and the top_n of a ranking
MaxEpocasRanking == 3
MaxTopN == 3

IsNaN(x) == x = NaN

\* the tracker as ConvergenciaTracker.__init__ leaves it: no attribute epocas, no
\* attribute pop_size
SemRastreio == [anexado |-> FALSE, epocas |-> <<>>, pop_size |-> None]

\* no AnalisadorEstatistico has been constructed
SemAnalisador ==
    [ estado            |-> "inexistente",
      _fitness_bruto    |-> <<>>,
      _fitness_bsf      |-> <<>>,
      _viavel           |-> <<>>,
      _custo_real       |-> <<>>,
      _pressao_min      |-> <<>>,
      _seed_usado       |-> None,
      _melhor_custo     |-> None,
      _custo_real_final |-> None,
      _metricas_cache   |-> <<>> ]

SemResultado == [dado |-> FALSE, tem_tracker |-> FALSE, seed_usado |-> None,
                 melhor_custo |-> None, custo_real |-> None]

SemConstrucao == [resultado |-> SemResultado, tracker |-> FALSE, op |-> "nenhuma"]

\* a < b and a <= b on floats: false as soon as one side is NaN
Lt(a, b) == ~IsNaN(a) /\ ~IsNaN(b) /\ a < b
Le(a, b) == ~IsNaN(a) /\ ~IsNaN(b) /\ a <= b

\* Python's min(a, b) / max(a, b) on two non-NaN floats
Min2(a, b) == IF b < a THEN b ELSE a
Max2(a, b) == IF b > a THEN b ELSE a

\* the least and the greatest element of a non-empty set of numbers
MinDe(S) == CHOOSE x \in S : \A y \in S : x <= y
MaxDe(S) == CHOOSE x \in S : \A y \in S : x >= y

Abs(x) == IF x < 0 THEN -x ELSE x

\* float(x) of an optional argument: None becomes np.nan
FloatOuNaN(x) == IF x = None THEN NaN ELSE x

----------------------------------------------------------------------------
(* ConvergenciaTracker *)

\* ConvergenciaTracker.__init__
TrackerInit(salvar) ==
    [ salvar_solucoes       |-> salvar,
      historico_bruto       |-> <<>>,
      historico             |-> <<>>,
      historico_custo_real  |-> <<>>,
      historico_pressao_min |-> <<>>,
      historico_viavel      |-> <<>>,
      historico_solucoes    |-> <<>>,
      melhor_fitness        |-> Inf,
      melhor_custo_real     |-> Inf,
      melhor_solucao        |-> None,
      iteracao_atual        |-> 0 ]

\* mutant: the raw fitness is recorded as the best-so-far
MelhorFitnessSemComparar(melhor_fitness, fitness) == fitness

\* adicionar: "if fitness < self.melhor_fitness: self.melhor_fitness = fitness"
MelhorFitness(melhor_fitness, fitness) ==
    IF Lt(fitness, melhor_fitness) THEN fitness ELSE melhor_fitness

\* mutant: the feasibility of the evaluation is not consulted
MelhorCustoRealSemViavel(melhor_custo_real, custo_real, viavel) ==
    IF custo_real # None /\ Lt(custo_real, melhor_custo_real)
    THEN custo_real ELSE melhor_custo_real

\* adicionar: "if viavel and custo_real < self.melhor_custo_real", under
\* "if custo_real is not None"
MelhorCustoReal(melhor_custo_real, custo_real, viavel) ==
    IF custo_real # None /\ viavel /\ Lt(custo_real, melhor_custo_real)
    THEN custo_real ELSE melhor_custo_real

\* adicionar: the solution history, kept only with salvar_solucoes
HistoricoSolucoes(t, solucao) ==
    IF t.salvar_solucoes /\ solucao # None
    THEN Append(t.historico_solucoes, solucao)
    ELSE IF t.salvar_solucoes
         THEN Append(t.historico_solucoes, None)
         ELSE t.historico_solucoes

\* mutant: the comparison with the best cost is strict
MelhorSolucaoEstrito(melhor_solucao, viavel, solucao, custo_real, melhor_custo_real) ==
    IF viavel /\ solucao # None /\ custo_real # None /\ Lt(custo_real, melhor_custo_real)
    THEN solucao ELSE melhor_solucao

\* adicionar: "if viavel and solucao is not None: if custo_real is not None and
\* custo_real <= self.melhor_custo_real"; melhor_custo_real is the value this
\* call has already updated
MelhorSolucao(melhor_solucao, viavel, solucao, custo_real, melhor_custo_real) ==
    IF viavel /\ solucao # None /\ custo_real # None /\ Le(custo_real, melhor_custo_real)
    THEN solucao ELSE melhor_solucao

\* ConvergenciaTracker.adicionar(fitness, custo_real, pressao_min, viavel, solucao)
adicionar(t, fitness, custo_real, pressao_min, viavel, solucao) ==
    LET mf == MelhorFitness(t.melhor_fitness, fitness)
        mc == MelhorCustoReal(t.melhor_custo_real, custo_real, viavel)
    IN [ salvar_solucoes       |-> t.salvar_solucoes,
         historico_bruto       |-> Append(t.historico_bruto, fitness),
         historico             |-> Append(t.historico, mf),
         historico_custo_real  |-> Append(t.historico_custo_real, FloatOuNaN(custo_real)),
         historico_pressao_min |-> Append(t.historico_pressao_min, FloatOuNaN(pressao_min)),
         historico_viavel      |-> Append(t.historico_viavel, viavel),
         historico_solucoes    |-> HistoricoSolucoes(t, solucao),
         melhor_fitness        |-> mf,
         melhor_custo_real     |-> mc,
         melhor_solucao        |-> MelhorSolucao(t.melhor_solucao, viavel, solucao, custo_real, mc),
         iteracao_atual        |-> t.iteracao_atual + 1 ]

\* mutant: the feasibility history survives the reset
limparSemViavel(t) ==
    [ t EXCEPT !.historico             = <<>>,
               !.historico_bruto       = <<>>,
               !.historico_custo_real  = <<>>,
               !.historico_pressao_min = <<>>,
               !.historico_solucoes    = <<>>,
               !.melhor_fitness        = Inf,
               !.melhor_custo_real     = Inf,
               !.melhor_solucao        = None,
               !.iteracao_atual        = 0 ]

\* mutant: the best feasible cost survives the reset
limparSemMelhorCusto(t) ==
    [ t EXCEPT !.historico             = <<>>,
               !.historico_bruto       = <<>>,
               !.historico_custo_real  = <<>>,
               !.historico_pressao_min = <<>>,
               !.historico_viavel      = <<>>,
               !.historico_solucoes    = <<>>,
               !.melhor_fitness        = Inf,
               !.melhor_solucao        = None,
               !.iteracao_atual        = 0 ]

\* ConvergenciaTracker.limpar
limpar(t) ==
    [ t EXCEPT !.historico             = <<>>,
               !.historico_bruto       = <<>>,
               !.historico_custo_real  = <<>>,
               !.historico_pressao_min = <<>>,
               !.historico_viavel      = <<>>,
               !.historico_solucoes    = <<>>,
               !.melhor_fitness        = Inf,
               !.melhor_custo_real     = Inf,
               !.melhor_solucao        = None,
               !.iteracao_atual        = 0 ]

\* ConvergenciaTracker.obter_historico
obter_historico(t) == t.historico

\* mutant: the feasibility flag is not consulted
RECURSIVE AcumularLoopSemFiltro(_, _, _, _, _)
AcumularLoopSemFiltro(arr, viavel_arr, i, current_best, ehMin) ==
    IF i > Len(arr) THEN <<>>
    ELSE LET cb == IF ~IsNaN(arr[i])
                   THEN IF IsNaN(current_best) THEN arr[i]
                        ELSE IF ehMin THEN Min2(current_best, arr[i])
                                      ELSE Max2(current_best, arr[i])
                   ELSE current_best
         IN <<cb>> \o AcumularLoopSemFiltro(arr, viavel_arr, i + 1, cb, ehMin)

\* the loop of acumular_melhor_custo_real (ehMin) and acumular_melhor_pressao_min
\* (~ehMin): the entries best[i..] given the running value current_best
RECURSIVE AcumularLoop(_, _, _, _, _)
AcumularLoop(arr, viavel_arr, i, current_best, ehMin) ==
    IF i > Len(arr) THEN <<>>
    ELSE LET cb == IF viavel_arr[i] /\ ~IsNaN(arr[i])
                   THEN IF IsNaN(current_best) THEN arr[i]
                        ELSE IF ehMin THEN Min2(current_best, arr[i])
                                      ELSE Max2(current_best, arr[i])
                   ELSE current_best
         IN <<cb>> \o AcumularLoop(arr, viavel_arr, i + 1, cb, ehMin)

\* ConvergenciaTracker.acumular_melhor_custo_real
acumular_melhor_custo_real(t) ==
    IF t.historico_custo_real = <<>> THEN <<>>
    ELSE AcumularLoop(t.historico_custo_real, t.historico_viavel, 1, NaN, TRUE)

\* ConvergenciaTracker.acumular_melhor_pressao_min
acumular_melhor_pressao_min(t) ==
    IF t.historico_pressao_min = <<>> THEN <<>>
    ELSE AcumularLoop(t.historico_pressao_min, t.historico_viavel, 1, NaN, FALSE)

\* ConvergenciaTracker.to_dataframe: the column 'avaliacao'
avaliacao(t) == [i \in 1..Len(t.historico_bruto) |-> i]

----------------------------------------------------------------------------
(* Actions on the tracker *)

SemChamada == [fitness |-> None, custo_real |-> None, pressao_min |-> None,
               viavel |-> FALSE, solucao |-> None, op |-> "nenhuma"]

\* one adicionar() call, at most max per reset, with inputs drawn from the given
\* sets; the same call is replayed on novo once limpar() has been called
AdicionarDe(max, F, C, P, V, S) ==
    /\ Len(tracker.historico_bruto) < max
    /\ \E fitness \in F, custo_real \in C, pressao_min \in P, viavel \in V, solucao \in S :
          /\ tracker' = adicionar(tracker, fitness, custo_real, pressao_min, viavel, solucao)
          /\ novo' = IF limpo
                     THEN adicionar(novo, fitness, custo_real, pressao_min, viavel, solucao)
                     ELSE novo
          /\ chamada' = [fitness |-> fitness, custo_real |-> custo_real,
                         pressao_min |-> pressao_min, viavel |-> viavel,
                         solucao |-> solucao, op |-> "adicionar"]
    /\ saida' = <<>>
    /\ UNCHANGED <<limpo, varsEstag, varsAn>>

\* limpar() on tracker; novo is constructed afresh with the same salvar_solucoes
Limpar ==
    /\ tracker' = limpar(tracker)
    /\ novo' = TrackerInit(tracker.salvar_solucoes)
    /\ limpo' = TRUE
    /\ chamada' = [SemChamada EXCEPT !.op = "limpar"]
    /\ saida' = <<>>
    /\ UNCHANGED <<varsEstag, varsAn>>

Init ==
    /\ \E s \in BOOLEAN : tracker = TrackerInit(s) /\ novo = TrackerInit(s)
    /\ limpo = FALSE
    /\ chamada = SemChamada
    /\ melhores = <<>>
    /\ estag = <<>>
    /\ rastreio = SemRastreio
    /\ an = SemAnalisador
    /\ construcao = SemConstrucao
    /\ retorno = <<>>
    /\ saida = <<>>

\* Spec: every argument of adicionar() varies
Adicionar == AdicionarDe(MaxEvalGeral, {1, 2}, {None, 1, 2}, {None, 1}, BOOLEAN, {None, 1, 2})
Next == Adicionar \/ Limpar
Spec == Init /\ [][Next]_vars

\* SpecFitness: the fitness and the feasibility vary
AdicionarFitness == AdicionarDe(MaxEval, {1, 2, 3}, {None}, {None}, BOOLEAN, {None})
NextFitness == AdicionarFitness \/ Limpar
SpecFitness == Init /\ [][NextFitness]_vars

\* SpecAcumular: the cost, the pressure and the feasibility vary
AdicionarMedidas == AdicionarDe(MaxEval, {1}, {None, 1, 2}, {None, 1, 2}, BOOLEAN, {None})
NextAcumular == AdicionarMedidas \/ Limpar
SpecAcumular == Init /\ [][NextAcumular]_vars

\* SpecSolucao: the cost, the feasibility and the solution vary
AdicionarSolucao == AdicionarDe(MaxEval, {1}, {None, 1, 2}, {None}, BOOLEAN, {None, 1, 2})
NextSolucao == AdicionarSolucao \/ Limpar
SpecSolucao == Init /\ [][NextSolucao]_vars

----------------------------------------------------------------------------
(* AnalisadorEstatistico: stagnation detection *)

\* _detectar_estagnacao: the default of janela
janela == 5

\* _detectar_estagnacao: the default of threshold is 1 / ThresholdDen
ThresholdDen == 1000000

\* np.minimum.accumulate
RECURSIVE MinimumAccumulate(_)
MinimumAccumulate(s) ==
    IF Len(s) <= 1 THEN s
    ELSE LET ant == MinimumAccumulate(SubSeq(s, 1, Len(s) - 1))
         IN Append(ant, Min2(ant[Len(ant)], s[Len(s)]))

\* mutant: the change is compared with the threshold without the division
SemMelhoriaAbsoluta(bsf_por_epoca, i) ==
    Abs(bsf_por_epoca[i + 1] - bsf_por_epoca[i]) = 0

\* _detectar_estagnacao: "melhoria_rel < threshold" at the transition i of the
\* loop (bsf_por_epoca[i] of the code is bsf_por_epoca[i + 1] here).  With
\* d = |bsf[i] - bsf[i-1]| and q = |bsf[i-1]|, or 1 when bsf[i-1] = 0, the test
\* d / q < 1 / ThresholdDen on integers is d <= (q - 1) \div ThresholdDen.
SemMelhoria(bsf_por_epoca, i) ==
    LET d == Abs(bsf_por_epoca[i + 1] - bsf_por_epoca[i])
        q == IF bsf_por_epoca[i] # 0 THEN Abs(bsf_por_epoca[i]) ELSE 1
    IN d <= (q - 1) \div ThresholdDen

\* mutant: a run of equal length replaces the recorded one
SubstituiMelhorOuIgual(sem_melhoria, max_sem_melhoria) ==
    sem_melhoria >= max_sem_melhoria

\* _detectar_estagnacao: "if sem_melhoria > max_sem_melhoria", when a run is
\* broken and for the final block
SubstituiMelhor(sem_melhoria, max_sem_melhoria) ==
    sem_melhoria > max_sem_melhoria

\* _detectar_estagnacao: the loop "for i in range(1, n)" from i on; e is the
\* record of the four locals
RECURSIVE EstagnacaoLoop(_, _, _)
EstagnacaoLoop(bsf_por_epoca, i, e) ==
    IF i > Len(bsf_por_epoca) - 1 THEN e
    ELSE IF SemMelhoria(bsf_por_epoca, i)
         THEN EstagnacaoLoop(bsf_por_epoca, i + 1,
                [e EXCEPT !.sem_melhoria = e.sem_melhoria + 1,
                          !.melhor_estag_inicio =
                              IF e.sem_melhoria + 1 = 1 THEN i ELSE e.melhor_estag_inicio])
         ELSE EstagnacaoLoop(bsf_por_epoca, i + 1,
                IF SubstituiMelhor(e.sem_melhoria, e.max_sem_melhoria)
                THEN [e EXCEPT !.max_sem_melhoria = e.sem_melhoria,
                               !.epoca_inicio_estagnacao = e.melhor_estag_inicio,
                               !.sem_melhoria = 0]
                ELSE [e EXCEPT !.sem_melhoria = 0])

\* mutant: the run still open at the end of the series is not considered
_detectar_estagnacao_sem_bloco_final(bsf_por_epoca) ==
    IF Len(bsf_por_epoca) < 2
    THEN [estagnado |-> FALSE, epoca_inicio |-> None, duracao |-> 0,
          epocas_sem_melhoria |-> 0]
    ELSE LET f == EstagnacaoLoop(bsf_por_epoca, 1,
                    [sem_melhoria |-> 0, max_sem_melhoria |-> 0,
                     epoca_inicio_estagnacao |-> None, melhor_estag_inicio |-> None])
         IN [estagnado |-> f.max_sem_melhoria >= janela,
             epoca_inicio |-> f.epoca_inicio_estagnacao,
             duracao |-> f.max_sem_melhoria,
             epocas_sem_melhoria |-> f.max_sem_melhoria]

\* AnalisadorEstatistico._detectar_estagnacao(bsf_por_epoca), with the default
\* janela and threshold
_detectar_estagnacao(bsf_por_epoca) ==
    IF Len(bsf_por_epoca) < 2
    THEN [estagnado |-> FALSE, epoca_inicio |-> None, duracao |-> 0,
          epocas_sem_melhoria |-> 0]
    ELSE LET l == EstagnacaoLoop(bsf_por_epoca, 1,
                    [sem_melhoria |-> 0, max_sem_melhoria |-> 0,
                     epoca_inicio_estagnacao |-> None, melhor_estag_inicio |-> None])
             f == IF SubstituiMelhor(l.sem_melhoria, l.max_sem_melhoria)
                  THEN [l EXCEPT !.max_sem_melhoria = l.sem_melhoria,
                                 !.epoca_inicio_estagnacao = l.melhor_estag_inicio]
                  ELSE l
         IN [estagnado |-> f.max_sem_melhoria >= janela,
             epoca_inicio |-> f.epoca_inicio_estagnacao,
             duracao |-> f.max_sem_melhoria,
             epocas_sem_melhoria |-> f.max_sem_melhoria]

\* the best fitness of one more epoch is known
EpocaMelhor ==
    /\ Len(melhores) < MaxEpocas
    /\ \E melhor \in {-1, 0, 1999999, 2000000} : melhores' = Append(melhores, melhor)
    /\ estag' = <<>>
    /\ saida' = <<>>
    /\ UNCHANGED <<varsTracker, varsAn>>

\* calcular, with n_epocas > 0:
\* m['estagnacao'] = self._detectar_estagnacao(np.minimum.accumulate(melhores))
DetectarEstagnacao ==
    /\ Len(melhores) > 0
    /\ LET bsf_por_epoca == MinimumAccumulate(melhores)
       IN estag' = <<[bsf_por_epoca |-> bsf_por_epoca,
                      estagnacao |-> _detectar_estagnacao(bsf_por_epoca)]>>
    /\ saida' = <<>>
    /\ UNCHANGED <<melhores, varsTracker, varsAn>>

\* SpecEstagnacao: _detectar_estagnacao on the best-so-far series of the epochs
InitEstagnacao == Init /\ ~tracker.salvar_solucoes
NextEstagnacao == EpocaMelhor \/ DetectarEstagnacao
SpecEstagnacao == InitEstagnacao /\ [][NextEstagnacao]_vars

----------------------------------------------------------------------------
(* numpy on the arrays of the analyzer *)
(* A float computed by the analyzer is an exact rational [n, d] in lowest    *)
(* terms with d > 0; np.nan is RNaN and float('inf') is RInf.  A standard    *)
(* deviation is kept as [raiz |-> v], the square root of the rational v.     *)

RECURSIVE Gcd(_, _)
Gcd(a, b) == IF b = 0 THEN a ELSE Gcd(b, a % b)

Rac(n, d) == LET g == Gcd(Abs(n), d) IN [n |-> n \div g, d |-> d \div g]

RNaN == [n |-> 0, d |-> 0]
RInf == [n |-> 1, d |-> 0]
RZero == [n |-> 0, d |-> 1]

\* float(x) of a stored value
Float(x) == IF x = NaN THEN RNaN ELSE IF x = Inf THEN RInf ELSE Rac(x, 1)

RSoma(a, b) == Rac(a.n * b.d + b.n * a.d, a.d * b.d)
RSub(a, b) == Rac(a.n * b.d - b.n * a.d, a.d * b.d)
RMenor(a, b) == a.n * b.d < b.n * a.d

RECURSIVE Soma(_)
Soma(x) == IF x = <<>> THEN 0 ELSE x[1] + Soma(Tail(x))

RECURSIVE SomaQuadrados(_)
SomaQuadrados(x) == IF x = <<>> THEN 0 ELSE x[1] * x[1] + SomaQuadrados(Tail(x))

RECURSIVE SomaRac(_)
SomaRac(x) == IF x = <<>> THEN RZero ELSE RSoma(x[1], SomaRac(Tail(x)))

\* the array sorted ascending
RECURSIVE Ordenado(_)
Ordenado(x) ==
    IF Len(x) <= 1 THEN x
    ELSE LET r == Ordenado(Tail(x))
             k == Cardinality({j \in 1..Len(r) : r[j] < x[1]})
         IN SubSeq(r, 1, k) \o <<x[1]>> \o SubSeq(r, k + 1, Len(r))

\* np.min, np.max of a non-empty array of numbers
NpMin(x) == MinDe({x[j] : j \in 1..Len(x)})
NpMax(x) == MaxDe({x[j] : j \in 1..Len(x)})

\* np.mean: NaN on an empty array
NpMean(x) == IF x = <<>> THEN RNaN ELSE Rac(Soma(x), Len(x))

\* np.mean of an array of floats
NpMeanRac(x) ==
    IF x = <<>> THEN RNaN
    ELSE LET t == SomaRac(x) IN Rac(t.n, t.d * Len(x))

\* np.median: the middle value, or the mean of the two middle values
NpMedian(x) ==
    IF x = <<>> THEN RNaN
    ELSE LET o == Ordenado(x)
             n == Len(x)
         IN IF n % 2 = 1 THEN Rac(o[(n + 1) \div 2], 1)
            ELSE Rac(o[n \div 2] + o[n \div 2 + 1], 2)

\* np.std: the square root of the mean squared deviation from the mean
NpStd(x) ==
    IF x = <<>> THEN [raiz |-> RNaN]
    ELSE LET n == Len(x)
         IN [raiz |-> Rac(n * SomaQuadrados(x) - Soma(x) * Soma(x), n * n)]

\* np.percentile(x, q) for q = 25 * k, by linear interpolation between the order
\* statistics around the position q / 100 * (n - 1)
NpPercentile(x, k) ==
    IF x = <<>> THEN RNaN
    ELSE LET o == Ordenado(x)
             pos == k * (Len(x) - 1)
             lo == pos \div 4
             r == pos % 4
         IN IF r = 0 THEN Rac(o[lo + 1], 1)
            ELSE Rac(4 * o[lo + 1] + r * (o[lo + 2] - o[lo + 1]), 4)

\* mutant: the last position of the maximum
NpArgmaxUltimo(x) ==
    CHOOSE j \in 0..Len(x) - 1 :
        /\ \A l \in 1..Len(x) : ~RMenor(x[j + 1], x[l])
        /\ \A l \in j + 2..Len(x) : RMenor(x[l], x[j + 1])

\* np.argmax: the first position (0-based) of the maximum of an array of floats
NpArgmaxRac(x) ==
    CHOOSE j \in 0..Len(x) - 1 :
        /\ \A l \in 1..Len(x) : ~RMenor(x[j + 1], x[l])
        /\ \A l \in 1..j : RMenor(x[l], x[j + 1])

\* the entries of arr selected by the boolean mask
RECURSIVE Filtrar(_, _)
Filtrar(arr, mask) ==
    IF arr = <<>> THEN <<>>
    ELSE (IF mask[1] THEN <<arr[1]>> ELSE <<>>) \o Filtrar(Tail(arr), Tail(mask))

\* int(mask.sum())
Contar(mask) == Cardinality({j \in 1..Len(mask) : mask[j]})

----------------------------------------------------------------------------
(* ConvergenciaTracker: statistics *)

\* the entries of an array that are not NaN, which np.nanmin, np.nanmax,
\* np.nanmean and np.nanstd reduce
SemNaN(x) == Filtrar(x, [j \in 1..Len(x) |-> ~IsNaN(x[j])])

\* obter_estatisticas: arr_custo[arr_viavel & ~np.isnan(arr_custo)]
CustosViaveis(t) ==
    Filtrar(t.historico_custo_real,
            [j \in 1..Len(t.historico_custo_real) |->
                t.historico_viavel[j] /\ ~IsNaN(t.historico_custo_real[j])])

\* mutant: the pressures are not filtered by feasibility
PressoesSemFiltroViavel(t) == SemNaN(t.historico_pressao_min)

\* obter_estatisticas: arr_pressao[arr_viavel & ~np.isnan(arr_pressao)]
PressoesViaveis(t) ==
    Filtrar(t.historico_pressao_min,
            [j \in 1..Len(t.historico_pressao_min) |->
                t.historico_viavel[j] /\ ~IsNaN(t.historico_pressao_min[j])])

\* ConvergenciaTracker.obter_estatisticas: the dictionary returned
obter_estatisticas(t) ==
    LET n == Len(t.historico_bruto)
        n_viaveis == Contar(t.historico_viavel)
        custos_viaveis == CustosViaveis(t)
        pressoes_viaveis == PressoesViaveis(t)
        stats == [ total_avaliacoes   |-> n,
                   avaliacoes_viaveis |-> n_viaveis,
                   percentual_viaveis |-> Rac(n_viaveis * 100, n),
                   melhor_fitness     |-> Float(t.melhor_fitness),
                   fitness_medio      |-> NpMean(SemNaN(t.historico_bruto)),
                   fitness_desvio     |-> NpStd(SemNaN(t.historico_bruto)).raiz ]
        custos == IF Len(custos_viaveis) > 0
                  THEN [ melhor_custo_real |-> Float(NpMin(SemNaN(custos_viaveis))),
                         custo_real_medio  |-> NpMean(SemNaN(custos_viaveis)),
                         custo_real_desvio |-> NpStd(SemNaN(custos_viaveis)).raiz ]
                  ELSE <<>>
        pressoes == IF Len(pressoes_viaveis) > 0
                    THEN [ pressao_min_melhor_viavel |-> Float(NpMin(SemNaN(pressoes_viaveis))),
                           pressao_max_melhor_viavel |-> Float(NpMax(SemNaN(pressoes_viaveis))),
                           pressao_media_viavel      |-> NpMean(SemNaN(pressoes_viaveis)) ]
                    ELSE <<>>
    IN IF n = 0 THEN [total_avaliacoes |-> 0]
       ELSE stats @@ custos @@ pressoes

\* stats = tracker.obter_estatisticas()
ObterEstatisticas ==
    /\ saida' = <<[op |-> "obter_estatisticas", stats |-> obter_estatisticas(tracker)]>>
    /\ UNCHANGED <<varsTracker, varsEstag, varsAn>>

\* SpecEstatisticas: the fitness, the cost, the pressure and the feasibility vary
AdicionarEstatisticas ==
    AdicionarDe(MaxEvalGeral, {1, 3}, {None, 1, 2}, {None, 1, 2}, BOOLEAN, {None})
InitEstatisticas == Init /\ ~tracker.salvar_solucoes
NextEstatisticas == AdicionarEstatisticas \/ Limpar \/ ObterEstatisticas
SpecEstatisticas == InitEstatisticas /\ [][NextEstatisticas]_vars

----------------------------------------------------------------------------
(* AnalisadorEstatistico *)

\* ConvergenciaTracker.obter_historico_bruto, obter_historico_viavel,
\* obter_historico_custo_real, obter_historico_pressao_min: np.asarray copies
obter_historico_bruto(t) == t.historico_bruto
obter_historico_viavel(t) == t.historico_viavel
obter_historico_custo_real(t) == t.historico_custo_real
obter_historico_pressao_min(t) == t.historico_pressao_min

\* mutant: a result without 'tracker' is accepted at construction
AnalisadorInitSemKeyError(resultado, tracker_dado, t, r) ==
    IF ~resultado.dado /\ ~tracker_dado
    THEN [SemAnalisador EXCEPT !.estado = "ValueError"]
    ELSE IF ~r.anexado
    THEN [SemAnalisador EXCEPT !.estado = "AttributeError"]
    ELSE [ estado            |-> "construido",
           _fitness_bruto    |-> IF tracker_dado \/ resultado.tem_tracker
                                 THEN obter_historico_bruto(t) ELSE <<>>,
           _fitness_bsf      |-> IF tracker_dado \/ resultado.tem_tracker
                                 THEN obter_historico(t) ELSE <<>>,
           _viavel           |-> IF tracker_dado \/ resultado.tem_tracker
                                 THEN obter_historico_viavel(t) ELSE <<>>,
           _custo_real       |-> IF tracker_dado \/ resultado.tem_tracker
                                 THEN obter_historico_custo_real(t) ELSE <<>>,
           _pressao_min      |-> IF tracker_dado \/ resultado.tem_tracker
                                 THEN obter_historico_pressao_min(t) ELSE <<>>,
           _seed_usado       |-> IF resultado.dado THEN resultado.seed_usado ELSE None,
           _melhor_custo     |-> IF resultado.dado THEN resultado.melhor_custo ELSE None,
           _custo_real_final |-> IF resultado.dado THEN resultado.custo_real ELSE None,
           _metricas_cache   |-> <<>> ]

\* AnalisadorEstatistico.__init__(resultado, tracker): t is the tracker that is
\* passed or embedded in resultado, r its attributes epocas and pop_size.
\* The outcome is the analyzer, or the exception that leaves none.
AnalisadorInit(resultado, tracker_dado, t, r) ==
    IF ~resultado.dado /\ ~tracker_dado
    THEN [SemAnalisador EXCEPT !.estado = "ValueError"]
    ELSE IF ~tracker_dado /\ ~resultado.tem_tracker
    THEN [SemAnalisador EXCEPT !.estado = "KeyError"]
    ELSE IF ~r.anexado
    THEN [SemAnalisador EXCEPT !.estado = "AttributeError"]
    ELSE [ estado            |-> "construido",
           _fitness_bruto    |-> obter_historico_bruto(t),
           _fitness_bsf      |-> obter_historico(t),
           _viavel           |-> obter_historico_viavel(t),
           _custo_real       |-> obter_historico_custo_real(t),
           _pressao_min      |-> obter_historico_pressao_min(t),
           _seed_usado       |-> IF resultado.dado THEN resultado.seed_usado ELSE None,
           _melhor_custo     |-> IF resultado.dado THEN resultado.melhor_custo ELSE None,
           _custo_real_final |-> IF resultado.dado THEN resultado.custo_real ELSE None,
           _metricas_cache   |-> <<>> ]

\* AnalisadorEstatistico._analisar_epocas: the entries from epoch i on, bsf being
\* the running minimum before it
RECURSIVE AnalisarEpocasLoop(_, _, _)
AnalisarEpocasLoop(epocas, i, bsf) ==
    IF i > Len(epocas) THEN <<>>
    ELSE LET e == epocas[i]
             b == IF bsf = Inf THEN e.melhor ELSE Min2(bsf, e.melhor)
         IN << [ epoca        |-> e.epoca,
                 melhor       |-> e.melhor,
                 bsf          |-> b,
                 media        |-> e.media,
                 mediana      |-> NpMedian(e.todos),
                 pior         |-> e.pior,
                 desvio       |-> e.desvio,
                 q25          |-> NpPercentile(e.todos, 1),
                 q75          |-> NpPercentile(e.todos, 3),
                 n_particulas |-> Len(e.todos) ] >>
            \o AnalisarEpocasLoop(epocas, i + 1, b)

\* AnalisadorEstatistico._analisar_epocas
_analisar_epocas(epocas) == AnalisarEpocasLoop(epocas, 1, Inf)

\* mutant: the feasible evaluations of the whole run are counted in every block
_viabilidade_por_epoca_sem_bloco(viavel, epocas, pop_size_attr) ==
    LET pop_size == IF pop_size_attr = None \/ pop_size_attr = 0 THEN 1 ELSE pop_size_attr
        n == Len(viavel)
    IN [ i \in 1..Len(epocas) |->
           LET inicio == (i - 1) * pop_size
               fim == Min2(inicio + pop_size, n)
               bloco == IF inicio >= fim THEN <<>> ELSE SubSeq(viavel, inicio + 1, fim)
               total == Len(bloco)
               viaveis == IF total > 0 THEN Contar(viavel) ELSE 0
           IN [ epoca      |-> epocas[i].epoca,
                total      |-> total,
                viaveis    |-> viaveis,
                percentual |-> IF total > 0 THEN Rac(viaveis * 100, total) ELSE RZero ] ]

\* AnalisadorEstatistico._viabilidade_por_epoca
_viabilidade_por_epoca(viavel, epocas, pop_size_attr) ==
    LET pop_size == IF pop_size_attr = None \/ pop_size_attr = 0 THEN 1 ELSE pop_size_attr
        n == Len(viavel)
    IN [ i \in 1..Len(epocas) |->
           LET inicio == (i - 1) * pop_size
               fim == Min2(inicio + pop_size, n)
               bloco == IF inicio >= fim THEN <<>> ELSE SubSeq(viavel, inicio + 1, fim)
               total == Len(bloco)
               viaveis == IF total > 0 THEN Contar(bloco) ELSE 0
           IN [ epoca      |-> epocas[i].epoca,
                total      |-> total,
                viaveis    |-> viaveis,
                percentual |-> IF total > 0 THEN Rac(viaveis * 100, total) ELSE RZero ] ]

\* calcular: taxas_melhoria, the relative improvement of the epoch best-so-far
TaxasMelhoria(bsf_por_epoca) ==
    [ i \in 1..Len(bsf_por_epoca) |->
        IF i > 1 /\ bsf_por_epoca[i - 1] # 0
        THEN Rac(bsf_por_epoca[i - 1] - bsf_por_epoca[i], Abs(bsf_por_epoca[i - 1]))
        ELSE RZero ]

\* calcular: the metrics of "Métricas globais" and of "Erro das partículas"
MetricasGlobais(a) ==
    LET n_total == Len(a._fitness_bruto)
        n_viaveis == IF Len(a._viavel) > 0 THEN Contar(a._viavel) ELSE 0
        melhor == a._fitness_bsf[Len(a._fitness_bsf)]
        erros == [j \in 1..n_total |-> a._fitness_bruto[j] - melhor]
    IN [ total_avaliacoes        |-> n_total,
         avaliacoes_viaveis      |-> n_viaveis,
         percentual_viaveis      |-> IF n_total > 0 THEN Rac(n_viaveis * 100, n_total)
                                     ELSE RZero,
         melhor_fitness          |-> IF n_total > 0 THEN Float(melhor) ELSE RNaN,
         pior_fitness            |-> IF n_total > 0 THEN Float(NpMax(a._fitness_bruto))
                                     ELSE RNaN,
         fitness_medio_global    |-> IF n_total > 0 THEN NpMean(a._fitness_bruto) ELSE RNaN,
         fitness_mediano_global  |-> IF n_total > 0 THEN NpMedian(a._fitness_bruto) ELSE RNaN,
         fitness_desvio_global   |-> IF n_total > 0 THEN NpStd(a._fitness_bruto)
                                     ELSE [raiz |-> RNaN],
         seed_usado              |-> a._seed_usado,
         erro_medio_particulas   |-> IF n_total > 0 THEN NpMean(erros) ELSE RNaN,
         erro_mediano_particulas |-> IF n_total > 0 THEN NpMedian(erros) ELSE RNaN,
         erro_desvio_particulas  |-> IF n_total > 0 THEN NpStd(erros) ELSE [raiz |-> RNaN],
         erro_maximo_particulas  |-> IF n_total > 0 THEN Float(NpMax(erros)) ELSE RNaN,
         erro_minimo_particulas  |-> IF n_total > 0 THEN Float(NpMin(erros)) ELSE RNaN,
         erro_q25                |-> IF n_total > 0 THEN NpPercentile(erros, 1) ELSE RNaN,
         erro_q50                |-> IF n_total > 0 THEN NpPercentile(erros, 2) ELSE RNaN,
         erro_q75                |-> IF n_total > 0 THEN NpPercentile(erros, 3) ELSE RNaN,
         erro_iqr                |-> IF n_total > 0
                                     THEN RSub(NpPercentile(erros, 3), NpPercentile(erros, 1))
                                     ELSE RNaN ]

\* calcular: the metrics of "Análise por época"
MetricasEpocas(a, r) ==
    LET n_epocas == Len(r.epocas)
        bsf_por_epoca == MinimumAccumulate([i \in 1..n_epocas |-> r.epocas[i].melhor])
        taxas_melhoria == TaxasMelhoria(bsf_por_epoca)
        desvios == [i \in 1..n_epocas |-> r.epocas[i].desvio]
        idx_melhor_epoca == NpArgmaxRac(Tail(taxas_melhoria)) + 1
    IN IF n_epocas > 0
       THEN [ total_epocas             |-> n_epocas,
              epocas_detalhes          |-> _analisar_epocas(r.epocas),
              taxa_melhoria_media      |-> NpMeanRac(Tail(taxas_melhoria)),
              taxa_melhoria_max        |->
                  taxas_melhoria[NpArgmaxRac(taxas_melhoria) + 1],
              diversidade_media        |-> NpMeanRac(desvios),
              diversidade_inicial      |-> desvios[1],
              diversidade_final        |-> desvios[n_epocas],
              perda_diversidade_pct    |->
                  IF desvios[1] # RZero
                  THEN LET dif == RSub(desvios[1], desvios[n_epocas])
                       IN Rac(dif.n * 100 * desvios[1].d, dif.d * desvios[1].n)
                  ELSE RZero,
              estagnacao               |-> _detectar_estagnacao(bsf_por_epoca),
              epoca_mais_produtiva     |-> IF n_epocas > 1 THEN idx_melhor_epoca ELSE 0,
              melhoria_na_melhor_epoca |->
                  IF n_epocas > 1 THEN taxas_melhoria[idx_melhor_epoca + 1] ELSE RZero,
              viabilidade_por_epoca    |->
                  _viabilidade_por_epoca(a._viavel, r.epocas, r.pop_size) ]
       ELSE [ total_epocas             |-> 0,
              epocas_detalhes          |-> <<>>,
              taxa_melhoria_media      |-> RNaN,
              taxa_melhoria_max        |-> RNaN,
              diversidade_media        |-> RNaN,
              diversidade_inicial      |-> RNaN,
              diversidade_final        |-> RNaN,
              perda_diversidade_pct    |-> RNaN,
              estagnacao               |-> <<>>,
              epoca_mais_produtiva     |-> 0,
              melhoria_na_melhor_epoca |-> RZero,
              viabilidade_por_epoca    |-> <<>> ]

\* mutant: the costs and pressures are not filtered by feasibility
MetricasSemFiltroViavel(a) ==
    LET custos_viaveis == SemNaN(a._custo_real)
        pressoes_viaveis == SemNaN(a._pressao_min)
    IN [ custo_real_melhor  |-> IF Len(custos_viaveis) > 0 THEN Float(NpMin(custos_viaveis))
                                ELSE RNaN,
         custo_real_medio   |-> IF Len(custos_viaveis) > 0 THEN NpMean(custos_viaveis)
                                ELSE RNaN,
         custo_real_mediano |-> IF Len(custos_viaveis) > 0 THEN NpMedian(custos_viaveis)
                                ELSE RNaN,
         custo_real_desvio  |-> IF Len(custos_viaveis) > 0 THEN NpStd(custos_viaveis)
                                ELSE [raiz |-> RNaN],
         pressao_min_minima |-> IF Len(pressoes_viaveis) > 0
                                THEN Float(NpMin(pressoes_viaveis)) ELSE RNaN,
         pressao_min_media  |-> IF Len(pressoes_viaveis) > 0 THEN NpMean(pressoes_viaveis)
                                ELSE RNaN,
         pressao_min_maxima |-> IF Len(pressoes_viaveis) > 0
                                THEN Float(NpMax(pressoes_viaveis)) ELSE RNaN ]

\* calcular: the metrics of "Custo real (somente viáveis)" and of
\* "Pressão mínima (somente viáveis)"
MetricasViaveis(a) ==
    LET n == Len(a._viavel)
        custos_viaveis ==
            Filtrar(a._custo_real, [j \in 1..n |-> a._viavel[j] /\ ~IsNaN(a._custo_real[j])])
        pressoes_viaveis ==
            Filtrar(a._pressao_min, [j \in 1..n |-> a._viavel[j] /\ ~IsNaN(a._pressao_min[j])])
    IN [ custo_real_melhor  |-> IF Len(custos_viaveis) > 0 THEN Float(NpMin(custos_viaveis))
                                ELSE RNaN,
         custo_real_medio   |-> IF Len(custos_viaveis) > 0 THEN NpMean(custos_viaveis)
                                ELSE RNaN,
         custo_real_mediano |-> IF Len(custos_viaveis) > 0 THEN NpMedian(custos_viaveis)
                                ELSE RNaN,
         custo_real_desvio  |-> IF Len(custos_viaveis) > 0 THEN NpStd(custos_viaveis)
                                ELSE [raiz |-> RNaN],
         pressao_min_minima |-> IF Len(pressoes_viaveis) > 0
                                THEN Float(NpMin(pressoes_viaveis)) ELSE RNaN,
         pressao_min_media  |-> IF Len(pressoes_viaveis) > 0 THEN NpMean(pressoes_viaveis)
                                ELSE RNaN,
         pressao_min_maxima |-> IF Len(pressoes_viaveis) > 0
                                THEN Float(NpMax(pressoes_viaveis)) ELSE RNaN ]

\* the dictionary m that calcular builds: the three groups merged
Metricas(a, r) ==
    LET g == MetricasGlobais(a)
        e == MetricasEpocas(a, r)
        v == MetricasViaveis(a)
        chaves == DOMAIN g \cup DOMAIN e \cup DOMAIN v
    IN [ k \in chaves |-> IF k \in DOMAIN g THEN g[k]
                          ELSE IF k \in DOMAIN e THEN e[k] ELSE v[k] ]

\* mutant: the cache is not consulted
calcularSemCache(a, r) == [valor |-> Metricas(a, r), do_cache |-> FALSE]

\* AnalisadorEstatistico.calcular: the dictionary returned, which is also
\* _metricas_cache afterwards, and whether it came from the early return
calcular(a, r) ==
    IF a._metricas_cache # <<>>
    THEN [valor |-> a._metricas_cache[1], do_cache |-> TRUE]
    ELSE [valor |-> Metricas(a, r), do_cache |-> FALSE]

\* exibir_ranking_epocas: the sort key "e.get(criterio, 0)" of an entry of
\* epocas_detalhes, as a float; an entry has no key "outro"
ChaveRanking(e, criterio) ==
    IF criterio = "melhor" THEN Float(e.melhor)
    ELSE IF criterio = "media" THEN e.media
    ELSE IF criterio = "desvio" THEN e.desvio
    ELSE IF criterio = "pior" THEN Float(e.pior)
    ELSE IF criterio = "mediana" THEN e.mediana
    ELSE RZero

\* list[::-1]
RECURSIVE Inverter(_)
Inverter(lista) ==
    IF lista = <<>> THEN <<>> ELSE Append(Inverter(Tail(lista)), lista[1])

\* sorted(lista, key=...): ascending and stable, an entry is placed after the
\* entries of smaller key and before the later entries of equal key
RECURSIVE SortedEstavel(_, _)
SortedEstavel(lista, criterio) ==
    IF Len(lista) <= 1 THEN lista
    ELSE LET r == SortedEstavel(Tail(lista), criterio)
             k == Cardinality({j \in 1..Len(r) :
                      RMenor(ChaveRanking(r[j], criterio), ChaveRanking(lista[1], criterio))})
         IN SubSeq(r, 1, k) \o <<lista[1]>> \o SubSeq(r, k + 1, Len(r))

\* sorted(lista, key=..., reverse=True): the list is reversed, sorted and reversed
\* again, so that entries of equal key keep their order
SortedReverso(lista, criterio) == Inverter(SortedEstavel(Inverter(lista), criterio))

\* mutant: the direction of the sort does not depend on the criterion
AscendenteSempre(criterio) == TRUE

\* exibir_ranking_epocas: "ascendente = criterio in ('melhor', 'media', 'desvio')"
Ascendente(criterio) == criterio \in {"melhor", "media", "desvio"}

\* exibir_ranking_epocas(criterio, top_n) on the dictionary m of calcular: the
\* rows printed, or the warning when there is no epoch
exibir_ranking_epocas(m, criterio, top_n) ==
    LET detalhes == m.epocas_detalhes
        ordenado == IF Ascendente(criterio) THEN SortedEstavel(detalhes, criterio)
                    ELSE SortedReverso(detalhes, criterio)
        listados == SubSeq(ordenado, 1, Min2(top_n, Len(ordenado)))
    IN [ op        |-> "exibir_ranking_epocas",
         criterio  |-> criterio,
         top_n     |-> top_n,
         sem_dados |-> detalhes = <<>>,
         linhas    |-> IF detalhes = <<>> THEN <<>>
                       ELSE [ i \in 1..Len(listados) |->
                                [ epoca  |-> listados[i].epoca,
                                  bsf    |-> listados[i].bsf,
                                  melhor |-> listados[i].melhor,
                                  media  |-> listados[i].media,
                                  desvio |-> listados[i].desvio ] ] ]

\* the keys of m whose value is a float
ChavesFloat ==
    { "percentual_viaveis", "melhor_fitness", "pior_fitness", "fitness_medio_global",
      "fitness_mediano_global", "fitness_desvio_global", "erro_medio_particulas",
      "erro_mediano_particulas", "erro_desvio_particulas", "erro_maximo_particulas",
      "erro_minimo_particulas", "erro_q25", "erro_q50", "erro_q75", "erro_iqr",
      "taxa_melhoria_media", "taxa_melhoria_max", "diversidade_media",
      "diversidade_inicial", "diversidade_final", "perda_diversidade_pct",
      "melhoria_na_melhor_epoca", "custo_real_melhor", "custo_real_medio",
      "custo_real_mediano", "custo_real_desvio", "pressao_min_minima",
      "pressao_min_media", "pressao_min_maxima" }

\* the keys of m whose value is an int
ChavesInt == {"total_avaliacoes", "avaliacoes_viaveis", "total_epocas", "epoca_mais_produtiva"}

\* json.dump of a float: allow_nan keeps its default, so nan and inf are written
\* as the tokens NaN and Infinity; _converter returns a Python float unchanged
JsonFloat(x) ==
    IF x = RNaN \/ x = [raiz |-> RNaN] THEN [token |-> "NaN", valor |-> RZero]
    ELSE IF x = RInf \/ x = [raiz |-> RInf] THEN [token |-> "Infinity", valor |-> RZero]
    ELSE [token |-> "numero", valor |-> x]

\* json.dump of an int or None
JsonInt(x) ==
    IF x = None THEN [token |-> "null", valor |-> RZero]
    ELSE [token |-> "numero", valor |-> Rac(x, 1)]

\* exportar_json: json.dump(_converter(m)), the document written
exportar_json(m) ==
    [ op                    |-> "exportar_json",
      escalares             |-> [k \in ChavesFloat |-> JsonFloat(m[k])],
      inteiros              |-> [k \in ChavesInt |-> JsonInt(m[k])],
      seed_usado            |-> JsonInt(m.seed_usado),
      epocas_detalhes       |->
          [ i \in 1..Len(m.epocas_detalhes) |->
              LET e == m.epocas_detalhes[i]
              IN [ epoca        |-> JsonInt(e.epoca),
                   melhor       |-> JsonFloat(Float(e.melhor)),
                   bsf          |-> JsonFloat(Float(e.bsf)),
                   media        |-> JsonFloat(e.media),
                   mediana      |-> JsonFloat(e.mediana),
                   pior         |-> JsonFloat(Float(e.pior)),
                   desvio       |-> JsonFloat(e.desvio),
                   q25          |-> JsonFloat(e.q25),
                   q75          |-> JsonFloat(e.q75),
                   n_particulas |-> JsonInt(e.n_particulas) ] ],
      estagnacao            |->
          IF m.estagnacao = <<>> THEN <<>>
          ELSE << [ estagnado           |-> m.estagnacao.estagnado,
                    epoca_inicio        |-> JsonInt(m.estagnacao.epoca_inicio),
                    duracao             |-> JsonInt(m.estagnacao.duracao),
                    epocas_sem_melhoria |-> JsonInt(m.estagnacao.epocas_sem_melhoria) ] >>,
      viabilidade_por_epoca |->
          [ i \in 1..Len(m.viabilidade_por_epoca) |->
              LET v == m.viabilidade_por_epoca[i]
              IN [ epoca      |-> JsonInt(v.epoca),
                   total      |-> JsonInt(v.total),
                   viaveis    |-> JsonInt(v.viaveis),
                   percentual |-> JsonFloat(v.percentual) ] ] ]

----------------------------------------------------------------------------
(* ConvergenciaTracker: export *)

\* "x if not np.isnan(x) else None" written by json.dump
JsonFloatOuNull(x) ==
    IF IsNaN(x) THEN [token |-> "null", valor |-> RZero] ELSE JsonFloat(Float(x))

\* ConvergenciaTracker.exportar_json: the document json.dump(dados) writes
tracker_exportar_json(t) ==
    [ op                |-> "tracker.exportar_json",
      total_avaliacoes  |-> JsonInt(t.iteracao_atual),
      melhor_fitness    |-> JsonFloat(Float(t.melhor_fitness)),
      melhor_custo_real |-> IF t.melhor_custo_real # Inf
                            THEN JsonFloat(Float(t.melhor_custo_real))
                            ELSE [token |-> "null", valor |-> RZero],
      avaliacoes        |->
          [ i \in 1..Len(t.historico_bruto) |->
              [ id             |-> JsonInt(i),
                fitness_bruto  |-> JsonFloat(Float(t.historico_bruto[i])),
                fitness_melhor |-> JsonFloat(Float(t.historico[i])),
                custo_real     |-> JsonFloatOuNull(t.historico_custo_real[i]),
                pressao_min    |-> IF i <= Len(t.historico_pressao_min)
                                   THEN JsonFloatOuNull(t.historico_pressao_min[i])
                                   ELSE [token |-> "null", valor |-> RZero],
                viavel         |-> IF i <= Len(t.historico_viavel)
                                   THEN <<t.historico_viavel[i]>> ELSE <<>> ]
              @@ (IF t.salvar_solucoes /\ i <= Len(t.historico_solucoes)
                  THEN [solucao |-> JsonInt(t.historico_solucoes[i])]
                  ELSE <<>>) ] ]

\* tracker.exportar_json(caminho)
TrackerExportarJson ==
    /\ saida' = <<tracker_exportar_json(tracker)>>
    /\ UNCHANGED <<varsTracker, varsEstag, varsAn>>

\* SpecExportarTracker: exports of a tracker of which the fitness, the cost, the
\* pressure and the feasibility vary
NextExportarTracker == AdicionarEstatisticas \/ Limpar \/ TrackerExportarJson
SpecExportarTracker == InitEstatisticas /\ [][NextExportarTracker]_vars

----------------------------------------------------------------------------
(* The search loop: epoch summaries attached to the tracker *)

\* the fitness lists of the population of one epoch
Populacoes == {<<1, 3>>, <<2, 2>>}

\* populations whose best fitness halves from one to the next
PopulacoesMelhoria == {<<4, 4>>, <<2, 2>>, <<1, 3>>}

\* the same with one more population, for the rankings
PopulacoesRanking == {<<1, 3>>, <<2, 2>>, <<3, 5>>}

\* the exact square root of a rational that is a perfect square
RaizExata(v) ==
    [n |-> CHOOSE x \in 0..v.n : x * x = v.n, d |-> CHOOSE x \in 1..v.d : x * x = v.d]

\* the summary of one epoch, from the fitness of its population
ResumoEpoca(epoca, todos) ==
    [ epoca  |-> epoca,
      melhor |-> NpMin(todos),
      media  |-> NpMean(todos),
      pior   |-> NpMax(todos),
      desvio |-> RaizExata(NpStd(todos).raiz),
      todos  |-> todos ]

----------------------------------------------------------------------------
(* Actions on the analyzer *)

\* the results of Otimizador.otimizar() passed to the constructor: none, one
\* without 'tracker', one with the tracker only, one with the tracker and the
\* three optional values
Resultados ==
    { SemResultado,
      [SemResultado EXCEPT !.dado = TRUE],
      [SemResultado EXCEPT !.dado = TRUE, !.tem_tracker = TRUE],
      [dado |-> TRUE, tem_tracker |-> TRUE, seed_usado |-> 7,
       melhor_custo |-> 5, custo_real |-> 4] }

\* the search loop attaches an empty epoch list and the population size, drawn
\* from PS
AnexarRastreioDe(PS) ==
    /\ ~rastreio.anexado
    /\ \E pop_size \in PS :
          rastreio' = [anexado |-> TRUE, epocas |-> <<>>, pop_size |-> pop_size]
    /\ saida' = <<>>
    /\ UNCHANGED <<varsTracker, varsEstag, an, construcao, retorno>>

AnexarRastreio == AnexarRastreioDe({None, 2})

\* the search loop appends the summary of a completed epoch: at most max epochs,
\* populations drawn from P, the epoch number being the next one plus an offset
\* drawn from D
RegistrarEpocaDe(max, P, D) ==
    /\ rastreio.anexado
    /\ Len(rastreio.epocas) < max
    /\ \E todos \in P, d \in D :
          rastreio' = [rastreio EXCEPT !.epocas =
                          Append(@, ResumoEpoca(Len(rastreio.epocas) + 1 + d, todos))]
    /\ saida' = <<>>
    /\ UNCHANGED <<varsTracker, varsEstag, an, construcao, retorno>>

RegistrarEpoca == RegistrarEpocaDe(MaxEpocasAn, Populacoes, {0})

\* AnalisadorEstatistico(resultado, tracker), while no analyzer exists
Construir ==
    /\ an.estado # "construido"
    /\ \E resultado \in Resultados, tracker_dado \in BOOLEAN :
          /\ an' = AnalisadorInit(resultado, tracker_dado, tracker, rastreio)
          /\ construcao' = [resultado |-> resultado, tracker |-> tracker_dado,
                            op |-> "construir"]
    /\ retorno' = <<>>
    /\ saida' = <<>>
    /\ UNCHANGED <<varsTracker, varsEstag, rastreio>>

\* mutant: calcular() consumes the epoch list of the tracker while reading it
CalcularConsumindoEpocas ==
    /\ an.estado = "construido"
    /\ LET c == calcular(an, rastreio)
       IN /\ an' = [an EXCEPT !._metricas_cache = <<c.valor>>]
          /\ retorno' = <<c>>
    /\ saida' = <<>>
    /\ rastreio' = [rastreio EXCEPT !.epocas = <<>>]
    /\ UNCHANGED <<varsTracker, varsEstag, construcao>>

\* analise.calcular()
Calcular ==
    /\ an.estado = "construido"
    /\ LET c == calcular(an, rastreio)
       IN /\ an' = [an EXCEPT !._metricas_cache = <<c.valor>>]
          /\ retorno' = <<c>>
    /\ saida' = <<>>
    /\ UNCHANGED <<varsTracker, varsEstag, rastreio, construcao>>

\* SpecAnalise: the life of one analyzer beside a tracker that keeps changing
AdicionarAn == AdicionarDe(MaxEvalAn, {1, 2}, {None}, {None}, {TRUE}, {None})
InitAnalise == Init /\ ~tracker.salvar_solucoes
NextAnalise ==
    \/ AdicionarAn
    \/ Limpar
    \/ AnexarRastreio
    \/ RegistrarEpoca
    \/ Construir
    \/ Calcular
SpecAnalise == InitAnalise /\ [][NextAnalise]_vars

\* analise.exibir_ranking_epocas(criterio, top_n)
Criterios == {"melhor", "media", "desvio", "pior", "mediana", "outro"}

ExibirRankingEpocas ==
    /\ an.estado = "construido"
    /\ \E criterio \in Criterios, top_n \in 1..MaxTopN :
          LET c == calcular(an, rastreio)
          IN /\ an' = [an EXCEPT !._metricas_cache = <<c.valor>>]
             /\ saida' = <<exibir_ranking_epocas(c.valor, criterio, top_n)>>
    /\ UNCHANGED <<varsTracker, varsEstag, rastreio, construcao, retorno>>

\* SpecRanking: rankings of the epochs of one analyzer
RegistrarEpocaRanking == RegistrarEpocaDe(MaxEpocasRanking, PopulacoesRanking, {0})
NextRanking ==
    \/ AnexarRastreio
    \/ RegistrarEpocaRanking
    \/ Construir
    \/ ExibirRankingEpocas
SpecRanking == InitAnalise /\ [][NextRanking]_vars

\* analise.exportar_json(caminho)
ExportarJson ==
    /\ an.estado = "construido"
    /\ LET c == calcular(an, rastreio)
       IN /\ an' = [an EXCEPT !._metricas_cache = <<c.valor>>]
          /\ saida' = <<exportar_json(c.valor)>>
    /\ UNCHANGED <<varsTracker, varsEstag, rastreio, construcao, retorno>>

\* SpecExportar: exports of one analyzer; runs with and without feasible
\* evaluations
AdicionarExportar == AdicionarDe(MaxEvalAn, {1, 2}, {1}, {None}, BOOLEAN, {None})
NextExportar ==
    \/ AdicionarExportar
    \/ AnexarRastreio
    \/ RegistrarEpoca
    \/ Construir
    \/ ExportarJson
SpecExportar == InitAnalise /\ [][NextExportar]_vars

\* SpecEpocas: a caller that numbers the epochs freely: the next number, or one
\* more, which leaves a gap
RegistrarEpocaLivre == RegistrarEpocaDe(MaxEpocasAn, Populacoes, {0, 1})
NextEpocas ==
    \/ AnexarRastreio
    \/ RegistrarEpocaLivre
    \/ Construir
    \/ Calcular
SpecEpocas == InitAnalise /\ [][NextEpocas]_vars

\* SpecMelhoria: the improvement between epochs, up to three epochs
RegistrarEpocaMelhoria == RegistrarEpocaDe(MaxEpocasRanking, PopulacoesMelhoria, {0})
NextMelhoria ==
    \/ AnexarRastreio
    \/ RegistrarEpocaMelhoria
    \/ Construir
    \/ Calcular
SpecMelhoria == InitAnalise /\ [][NextMelhoria]_vars

\* SpecViabilidade: the feasibility flags, the number of epochs and the
\* population size vary
AnexarRastreioViabilidade == AnexarRastreioDe({None, 0, 2})
AdicionarViabilidade == AdicionarDe(MaxEval, {1}, {None}, {None}, BOOLEAN, {None})
RegistrarEpocaViabilidade == RegistrarEpocaDe(MaxEpocasAn, {<<2, 2>>}, {0})
NextViabilidade ==
    \/ AdicionarViabilidade
    \/ AnexarRastreioViabilidade
    \/ RegistrarEpocaViabilidade
    \/ Construir
    \/ Calcular
SpecViabilidade == InitAnalise /\ [][NextViabilidade]_vars

\* SpecViaveis: an analyzer of a tracker whose cost, pressure and feasibility
\* vary
AdicionarViaveis == AdicionarDe(MaxEvalAn, {1}, {None, 1, 2}, {None, 1, 2}, BOOLEAN, {None})
AnexarRastreioViaveis == AnexarRastreioDe({None})
NextViaveis == AdicionarViaveis \/ AnexarRastreioViaveis \/ Construir \/ Calcular
SpecViaveis == InitAnalise /\ [][NextViaveis]_vars

\* serie = tracker.acumular_melhor_custo_real()
AcumularMelhorCustoReal ==
    /\ saida' = <<[op |-> "acumular_melhor_custo_real",
                   serie |-> acumular_melhor_custo_real(tracker)]>>
    /\ UNCHANGED <<varsTracker, varsEstag, varsAn>>

\* SpecMelhorCusto: the best cost read from the tracker, from its accumulated
\* series, from its statistics and from an analyzer
AdicionarCusto == AdicionarDe(MaxEvalAn, {1}, {None, 1, 2}, {None}, BOOLEAN, {None})
NextMelhorCusto ==
    \/ AdicionarCusto
    \/ AnexarRastreioViaveis
    \/ Construir
    \/ Calcular
    \/ AcumularMelhorCustoReal
    \/ ObterEstatisticas
SpecMelhorCusto == InitAnalise /\ [][NextMelhorCusto]_vars

\* analise.to_dict(): "return self.calcular()"
ToDict ==
    /\ an.estado = "construido"
    /\ LET c == calcular(an, rastreio)
       IN /\ an' = [an EXCEPT !._metricas_cache = <<c.valor>>]
          /\ retorno' = <<c>>
          /\ saida' = <<[op |-> "to_dict", valor |-> c.valor]>>
    /\ UNCHANGED <<varsTracker, varsEstag, rastreio, construcao>>

\* the changes a consumer makes to the mapping it was given:
\* m['melhor_fitness'] = 0.0 and m['epocas_detalhes'].clear()
Modificacoes(m) ==
    { [m EXCEPT !.melhor_fitness = RZero], [m EXCEPT !.epocas_detalhes = <<>>] }

\* the consumer modifies the mapping returned by calcular() or to_dict(): both
\* return self._metricas_cache itself, not a copy, so the dictionary held by the
\* consumer and the cache of the analyzer are one object
ModificarRetorno ==
    /\ retorno # <<>>
    /\ \E m \in Modificacoes(retorno[1].valor) :
          /\ m # retorno[1].valor
          /\ retorno' = <<[retorno[1] EXCEPT !.valor = m]>>
          /\ an' = [an EXCEPT !._metricas_cache = <<m>>]
    /\ saida' = <<>>
    /\ UNCHANGED <<varsTracker, varsEstag, rastreio, construcao>>

\* SpecConsumidor: one analyzer and a consumer of the mappings it returns
NextConsumidor ==
    \/ AnexarRastreio
    \/ RegistrarEpoca
    \/ Construir
    \/ Calcular
    \/ ToDict
    \/ ModificarRetorno
SpecConsumidor == InitAnalise /\ [][NextConsumidor]_vars

\* SpecOperacoes: every operation of one analyzer beside a tracker and an epoch
\* list that keep growing
AdicionarOperacoes == AdicionarDe(MaxEvalAn, {1}, {None}, {None}, {TRUE}, {None})
RegistrarEpocaOperacoes == RegistrarEpocaDe(MaxEpocasAn, {<<2, 2>>}, {0})
NextOperacoes ==
    \/ AdicionarOperacoes
    \/ AnexarRastreioViaveis
    \/ RegistrarEpocaOperacoes
    \/ Construir
    \/ Calcular
    \/ ToDict
    \/ ExibirRankingEpocas
    \/ ExportarJson
SpecOperacoes == InitAnalise /\ [][NextOperacoes]_vars

\* SpecBusca: the search loop of a population of two, one generation after the
\* other: it evaluates the members of the generation, then appends the summary
\* of the generation; an analyzer is built and asked at any moment
AnexarRastreioBusca == AnexarRastreioDe({2})
AdicionarBusca ==
    /\ rastreio.anexado
    /\ Len(rastreio.epocas) < MaxEpocasAn
    /\ AdicionarDe((Len(rastreio.epocas) + 1) * rastreio.pop_size,
                   {2}, {None}, {None}, BOOLEAN, {None})
RegistrarEpocaBusca ==
    /\ Len(tracker.historico_bruto) = (Len(rastreio.epocas) + 1) * rastreio.pop_size
    /\ RegistrarEpocaDe(MaxEpocasAn, {<<2, 2>>}, {0})
NextBusca ==
    \/ AnexarRastreioBusca
    \/ AdicionarBusca
    \/ RegistrarEpocaBusca
    \/ Construir
    \/ Calcular
SpecBusca == InitAnalise /\ [][NextBusca]_vars

----------------------------------------------------------------------------
(* Helpers of the properties *)


\* indices 1..i of feasible entries with a defined value
Qualificados(arr, viavel_arr, i) ==
    {j \in 1..i : viavel_arr[j] /\ ~IsNaN(arr[j])}

----------------------------------------------------------------------------
(* Properties of the tracker *)

\* C1: after any sequence of adicionar calls, historico[i] is the minimum of
\* historico_bruto[1..i] for every recorded index i, and obter_historico() is
\* non-increasing.
C1_HistoricoMinimoCorrente ==
    /\ Len(tracker.historico) = Len(tracker.historico_bruto)
    /\ \A i \in 1..Len(tracker.historico) :
          /\ tracker.historico[i] = MinDe({tracker.historico_bruto[j] : j \in 1..i})
          /\ i > 1 => obter_historico(tracker)[i] <= obter_historico(tracker)[i - 1]

\* C1 witness: three evaluations, the best-so-far drops at the second and the
\* third raw fitness is above it.
C1_Witness ==
    /\ Len(tracker.historico) = 3
    /\ tracker.historico[2] < tracker.historico[1]
    /\ tracker.historico_bruto[3] > tracker.historico[3]

\* the specification of one accumulated series: undefined before the first
\* feasible entry with a defined value, then the extremum over those entries
AcumuladoCorreto(out, arr, viavel_arr, ehMin) ==
    /\ Len(out) = Len(arr)
    /\ \A i \in 1..Len(arr) :
          LET Q == Qualificados(arr, viavel_arr, i)
          IN IF Q = {} THEN IsNaN(out[i])
             ELSE out[i] = IF ehMin THEN MinDe({arr[j] : j \in Q})
                                    ELSE MaxDe({arr[j] : j \in Q})

\* C2: acumular_melhor_custo_real (min) and acumular_melhor_pressao_min (max)
\* return one entry per recorded evaluation; entry i is undefined before the
\* first feasible entry with a defined value and otherwise the min (max) over
\* exactly the feasible entries with a defined value among 1..i.
C2_AcumularSobFiltro ==
    /\ Len(acumular_melhor_custo_real(tracker)) = tracker.iteracao_atual
    /\ Len(acumular_melhor_pressao_min(tracker)) = tracker.iteracao_atual
    /\ AcumuladoCorreto(acumular_melhor_custo_real(tracker),
                        tracker.historico_custo_real, tracker.historico_viavel, TRUE)
    /\ AcumuladoCorreto(acumular_melhor_pressao_min(tracker),
                        tracker.historico_pressao_min, tracker.historico_viavel, FALSE)

\* C2 witness: an infeasible first entry whose cost and pressure would have
\* been the extrema, then two feasible entries improving the cost and the
\* pressure.
C2_Witness ==
    /\ tracker.historico_viavel = <<FALSE, TRUE, TRUE>>
    /\ tracker.historico_custo_real = <<1, 2, 1>>
    /\ tracker.historico_pressao_min = <<2, 1, 2>>
    /\ acumular_melhor_custo_real(tracker) = <<NaN, 2, 1>>
    /\ acumular_melhor_pressao_min(tracker) = <<NaN, 1, 2>>

\* C3: after any sequence of adicionar and limpar calls the five
\* per-evaluation histories have the same length, equal to iteracao_atual,
\* which counts the adicionar calls since construction or the last limpar;
\* the evaluation numbers are 1..n.
C3_HistoriasAlinhadas ==
    /\ [](/\ Len(tracker.historico_bruto) = tracker.iteracao_atual
          /\ Len(tracker.historico) = tracker.iteracao_atual
          /\ Len(tracker.historico_viavel) = tracker.iteracao_atual
          /\ Len(tracker.historico_custo_real) = tracker.iteracao_atual
          /\ Len(tracker.historico_pressao_min) = tracker.iteracao_atual
          /\ avaliacao(tracker) = [i \in 1..tracker.iteracao_atual |-> i])
    /\ [][/\ chamada'.op = "adicionar" =>
                tracker'.iteracao_atual = tracker.iteracao_atual + 1
          /\ chamada'.op = "limpar" => tracker'.iteracao_atual = 0]_vars

\* C3 witness: two evaluations recorded after a limpar, one without cost and
\* pressure.
C3_Witness ==
    /\ limpo
    /\ tracker.iteracao_atual = 2
    /\ IsNaN(tracker.historico_custo_real[1])
    /\ IsNaN(tracker.historico_pressao_min[1])
    /\ ~IsNaN(tracker.historico_custo_real[2])

C10_LimparComoNovo ==
    /\ chamada.op = "limpar" => tracker = TrackerInit(tracker.salvar_solucoes)
    /\ limpo =>
          /\ tracker = novo
          /\ obter_historico(tracker) = obter_historico(novo)
          /\ acumular_melhor_custo_real(tracker) = acumular_melhor_custo_real(novo)
          /\ acumular_melhor_pressao_min(tracker) = acumular_melhor_pressao_min(novo)
          /\ avaliacao(tracker) = avaliacao(novo)

\* C10 witness: after a limpar, two evaluations of which the first is
\* infeasible with a lower cost than the feasible second one.
C10_Witness ==
    /\ limpo
    /\ tracker.iteracao_atual = 2
    /\ tracker.historico_viavel = <<FALSE, TRUE>>
    /\ tracker.historico_custo_real = <<1, 2>>
    /\ tracker.melhor_custo_real = 2
    /\ tracker.melhor_solucao # None

\* C20: with salvar_solucoes = false the solucao argument of adicionar is
\* ignored: neither historico_solucoes nor melhor_solucao retains a solution
\* vector, whatever adicionar calls were made.
C20_SolucaoIgnorada ==
    ~tracker.salvar_solucoes =>
        /\ tracker.historico_solucoes = <<>>
        /\ tracker.melhor_solucao = None

\* C26: ConvergenciaTracker.exportar_json never emits NaN or Infinity: an
\* undefined cost or pressure of an evaluation is written as null, the header
\* fields melhor_fitness and melhor_custo_real are written as null when they
\* are not finite, total_avaliacoes is the number of entries and the ids are
\* 1..n.
C26_TrackerExportSemNaN ==
    (saida # <<>> /\ saida[1].op = "tracker.exportar_json") =>
        LET doc == saida[1]
            nulo == [token |-> "null", valor |-> RZero]
            Saneado(x) == IF x \in {NaN, Inf} THEN nulo
                          ELSE [token |-> "numero", valor |-> [n |-> x, d |-> 1]]
        IN /\ doc.melhor_fitness = Saneado(tracker.melhor_fitness)
           /\ doc.melhor_custo_real = Saneado(tracker.melhor_custo_real)
           /\ doc.total_avaliacoes.valor = [n |-> Len(doc.avaliacoes), d |-> 1]
           /\ \A i \in 1..Len(doc.avaliacoes) :
                 /\ doc.avaliacoes[i].id.valor = [n |-> i, d |-> 1]
                 /\ doc.avaliacoes[i].custo_real = Saneado(tracker.historico_custo_real[i])
                 /\ doc.avaliacoes[i].pressao_min = Saneado(tracker.historico_pressao_min[i])

\* C27: when melhor_solucao is defined, it is the solution of a feasible record
\* whose cost is melhor_custo_real.  The solutions are observed in
\* historico_solucoes, hence under salvar_solucoes.
C27_MelhorSolucaoDoMelhorCusto ==
    (tracker.salvar_solucoes /\ tracker.melhor_solucao # None) =>
        \E j \in 1..Len(tracker.historico_bruto) :
            /\ tracker.historico_viavel[j]
            /\ tracker.historico_solucoes[j] = tracker.melhor_solucao
            /\ tracker.historico_custo_real[j] = tracker.melhor_custo_real

\* C17: obter_estatisticas() on an empty tracker returns exactly
\* {total_avaliacoes: 0}; on a non-empty tracker it returns the total, the
\* feasible count (at most the total) and the feasible rate count / total * 100,
\* and the cost fields, respectively the pressure fields, are present exactly
\* when a feasible record has a defined cost, respectively pressure.
C17_EstatisticasDoTracker ==
    (saida # <<>> /\ saida[1].op = "obter_estatisticas") =>
        LET st == saida[1].stats
            n == Len(tracker.historico_bruto)
            viaveis == {j \in 1..n : tracker.historico_viavel[j]}
            temCusto == \E j \in viaveis : tracker.historico_custo_real[j] # NaN
            temPressao == \E j \in viaveis : tracker.historico_pressao_min[j] # NaN
            base == {"total_avaliacoes", "avaliacoes_viaveis", "percentual_viaveis",
                     "melhor_fitness", "fitness_medio", "fitness_desvio"}
            deCusto == {"melhor_custo_real", "custo_real_medio", "custo_real_desvio"}
            dePressao == {"pressao_min_melhor_viavel", "pressao_max_melhor_viavel",
                          "pressao_media_viavel"}
        IN IF n = 0
           THEN DOMAIN st = {"total_avaliacoes"} /\ st.total_avaliacoes = 0
           ELSE /\ st.total_avaliacoes = n
                /\ st.avaliacoes_viaveis = Cardinality(viaveis)
                /\ Cardinality(viaveis) <= n
                /\ st.percentual_viaveis.n * n = Cardinality(viaveis) * 100 * st.percentual_viaveis.d
                /\ DOMAIN st = base \cup (IF temCusto THEN deCusto ELSE {})
                                    \cup (IF temPressao THEN dePressao ELSE {})

\* C17 witness: statistics of two evaluations in which a feasible record has a
\* cost but no pressure, and the only defined pressure belongs to an infeasible
\* record: the cost fields are present, the pressure fields are not.
C17_Witness ==
    /\ saida # <<>>
    /\ saida[1].op = "obter_estatisticas"
    /\ Len(tracker.historico_bruto) = 2
    /\ "melhor_custo_real" \in DOMAIN saida[1].stats
    /\ "pressao_media_viavel" \notin DOMAIN saida[1].stats
    /\ \E j \in 1..2 : ~tracker.historico_viavel[j] /\ tracker.historico_pressao_min[j] # NaN

----------------------------------------------------------------------------
(* Properties of the stagnation detection *)

\* transition i (1..n-1, the indices of the code) of the series b shows no
\* improvement: |b[i] - b[i-1]| / |b[i-1]| < 1 / ThresholdDen, the plain
\* difference being compared when b[i-1] = 0
SemMelhoriaEm(b, i) ==
    LET d == Abs(b[i + 1] - b[i])
        p == Abs(b[i])
    IN IF p = 0 THEN d = 0
       ELSE d <= 2000 /\ d * ThresholdDen < p

\* the maximal runs of consecutive no-improvement transitions, as <<first, last>>
Corridas(b) ==
    {r \in (1..Len(b) - 1) \X (1..Len(b) - 1) :
        /\ r[1] <= r[2]
        /\ \A i \in r[1]..r[2] : SemMelhoriaEm(b, i)
        /\ r[1] = 1 \/ ~SemMelhoriaEm(b, r[1] - 1)
        /\ r[2] = Len(b) - 1 \/ ~SemMelhoriaEm(b, r[2] + 1)}

\* C7: duracao is the length of the longest run of consecutive no-improvement
\* transitions (a run open at the end included), epoca_inicio is the first
\* transition of a run of that length and is undefined exactly when
\* duracao = 0, estagnado holds iff duracao >= 5, and fewer than 2 epochs give
\* estagnado = false, epoca_inicio undefined, duracao = 0.
C7_EstagnacaoMaiorCorrida ==
    estag # <<>> =>
        LET b == estag[1].bsf_por_epoca
            r == estag[1].estagnacao
            cs == Corridas(b)
            maior == IF cs = {} THEN 0 ELSE MaxDe({c[2] - c[1] + 1 : c \in cs})
        IN /\ r.duracao = maior
           /\ (r.epoca_inicio = None) <=> (r.duracao = 0)
           /\ r.duracao > 0 =>
                 \E c \in cs : c[1] = r.epoca_inicio /\ c[2] - c[1] + 1 = r.duracao
           /\ r.estagnado <=> (r.duracao >= 5)
           /\ Len(b) < 2 =>
                 (~r.estagnado /\ r.epoca_inicio = None /\ r.duracao = 0)

\* C7 witness: seven epochs, five flat transitions (the first one below the
\* relative threshold) and a drop at the last: stagnated from epoch 1 for 5.
C7_Witness ==
    /\ estag # <<>>
    /\ estag[1].bsf_por_epoca =
          <<2000000, 1999999, 1999999, 1999999, 1999999, 1999999, 0>>
    /\ estag[1].estagnacao.estagnado
    /\ estag[1].estagnacao.epoca_inicio = 1
    /\ estag[1].estagnacao.duracao = 5

\* C8: with several no-improvement runs of the maximal length, epoca_inicio is
\* the start of the earliest one.
C8_PrimeiraCorridaVence ==
    estag # <<>> =>
        LET cs == Corridas(estag[1].bsf_por_epoca)
            maior == IF cs = {} THEN 0 ELSE MaxDe({c[2] - c[1] + 1 : c \in cs})
        IN \A c \in cs :
              c[2] - c[1] + 1 = maior
                  => /\ estag[1].estagnacao.epoca_inicio # None
                     /\ estag[1].estagnacao.epoca_inicio <= c[1]

\* C8 witness: runs of length 2 at transitions 1..2 and 4..5, the second one
\* broken at transition 6; the reported start is 1.
C8_Witness ==
    /\ estag # <<>>
    /\ estag[1].bsf_por_epoca = <<2000000, 2000000, 2000000, 0, 0, 0, -1>>
    /\ estag[1].estagnacao.duracao = 2
    /\ estag[1].estagnacao.epoca_inicio = 1

----------------------------------------------------------------------------
(* Properties of the analyzer *)

\* C4: the first calcular() computes the bundle and stores it; every later
\* call returns that bundle from the cache, whatever adicionar, limpar or
\* epoch appends happened in between, and the cache is never emptied.
C4_CalcularIdempotente ==
    /\ [][/\ an._metricas_cache # <<>> => an'._metricas_cache = an._metricas_cache
          /\ (an._metricas_cache = <<>> /\ an'._metricas_cache # <<>>) =>
                /\ an'._metricas_cache = <<Metricas(an, rastreio)>>
                /\ retorno' = <<[valor |-> Metricas(an, rastreio), do_cache |-> FALSE]>>
          /\ (an._metricas_cache # <<>> /\ retorno' # retorno) =>
                retorno' = <<[valor |-> an._metricas_cache[1], do_cache |-> TRUE]>>]_vars
    /\ [](retorno # <<>> => an._metricas_cache = <<retorno[1].valor>>)

\* C4 witness: a call answered from the cache after the tracker was reset and
\* an epoch was appended: the bundle still reports the two evaluations and
\* the epochs of the first call.
C4_Witness ==
    /\ retorno # <<>>
    /\ retorno[1].do_cache
    /\ retorno[1].valor.total_avaliacoes = 2
    /\ limpo /\ tracker.iteracao_atual = 0
    /\ retorno[1].valor.total_epocas < Len(rastreio.epocas)

\* C5: a construction with neither resultado nor tracker, or with only a
\* resultado without 'tracker', fails inside the constructor (ValueError,
\* KeyError) and leaves no analyzer: nothing is cached and calcular() has
\* returned nothing.
C5_ErroNaConstrucao ==
    (/\ construcao.op = "construir"
     /\ ~construcao.tracker
     /\ ~construcao.resultado.dado \/ ~construcao.resultado.tem_tracker)
    => /\ an.estado = IF construcao.resultado.dado THEN "KeyError" ELSE "ValueError"
       /\ an = [SemAnalisador EXCEPT !.estado = an.estado]
       /\ retorno = <<>>

\* C5 witness: a resultado without 'tracker' was refused at construction,
\* beside a tracker that holds evaluations.
C5_Witness ==
    /\ an.estado = "KeyError"
    /\ construcao.op = "construir"
    /\ construcao.resultado.dado
    /\ tracker.iteracao_atual > 0

\* the derived scalars that C6 names
EscalaresIndefinidos(m) ==
    /\ m.melhor_fitness = RNaN
    /\ m.pior_fitness = RNaN
    /\ m.fitness_medio_global = RNaN
    /\ m.fitness_mediano_global = RNaN
    /\ m.fitness_desvio_global = [raiz |-> RNaN]
    /\ m.erro_medio_particulas = RNaN
    /\ m.erro_mediano_particulas = RNaN
    /\ m.erro_desvio_particulas = [raiz |-> RNaN]
    /\ m.erro_maximo_particulas = RNaN
    /\ m.erro_minimo_particulas = RNaN
    /\ m.erro_q25 = RNaN
    /\ m.erro_q50 = RNaN
    /\ m.erro_q75 = RNaN
    /\ m.erro_iqr = RNaN

\* C6: for a recorder with zero recorded evaluations, building the analyzer
\* and calling calcular() raises no exception, reports total_avaliacoes = 0
\* and every derived scalar of fitness and of error as undefined.
C6_RecorderVazioSemExcecao ==
    /\ [][(/\ an.estado # "construido"
           /\ an' # an \/ construcao' # construcao
           /\ construcao'.tracker \/ construcao'.resultado.tem_tracker
           /\ tracker.iteracao_atual = 0)
          => an'.estado = "construido"]_vars
    /\ []((retorno # <<>> /\ an._fitness_bruto = <<>>) =>
            /\ retorno[1].valor.total_avaliacoes = 0
            /\ EscalaresIndefinidos(retorno[1].valor))

\* C13: an analyzer is constructed only when exactly one of tracker and
\* resultado is supplied, a supplied resultado embedding a tracker; supplying
\* both is not accepted.
C13_ExatamenteUmaForma ==
    an.estado = "construido" =>
        \/ construcao.tracker /\ ~construcao.resultado.dado
        \/ ~construcao.tracker /\ construcao.resultado.dado
              /\ construcao.resultado.tem_tracker

\* C14: for a tracker obtained by ConvergenciaTracker() and adicionar calls
\* only, AnalisadorEstatistico(tracker=t) followed by calcular() completes: the
\* construction yields an analyzer, on which calcular is then possible.
C14_RecorderBastaAoAnalisador ==
    (/\ construcao.op = "construir"
     /\ construcao.tracker
     /\ ~construcao.resultado.dado
     /\ ~rastreio.anexado)
    => an.estado = "construido"

\* C15: on an empty recorder every scalar of the bundle other than the
\* evaluation counts is undefined, never a numeric zero; in particular
\* percentual_viaveis.
C15_VazioSemZeros ==
    (retorno # <<>> /\ an._fitness_bruto = <<>>) =>
        /\ retorno[1].valor.total_avaliacoes = 0
        /\ retorno[1].valor.avaliacoes_viaveis = 0
        /\ retorno[1].valor.percentual_viaveis = RNaN
        /\ retorno[1].valor.total_epocas = 0 =>
              \A k \in ChavesFloat : retorno[1].valor[k] \in {RNaN, [raiz |-> RNaN]}

\* C18: each of seed_usado, melhor_custo and custo_real that resultado supplies
\* is in the bundle calcular() returns, with the same value.
C18_ExtrasNoBundle ==
    (retorno # <<>> /\ construcao.resultado.dado) =>
        /\ construcao.resultado.seed_usado # None =>
              /\ "seed_usado" \in DOMAIN retorno[1].valor
              /\ retorno[1].valor["seed_usado"] = construcao.resultado.seed_usado
        /\ construcao.resultado.melhor_custo # None =>
              /\ "melhor_custo" \in DOMAIN retorno[1].valor
              /\ retorno[1].valor["melhor_custo"] = construcao.resultado.melhor_custo
        /\ construcao.resultado.custo_real # None =>
              /\ "custo_real" \in DOMAIN retorno[1].valor
              /\ retorno[1].valor["custo_real"] = construcao.resultado.custo_real

\* C16: the cached bundle is immutable after its first computation: nothing a
\* consumer does with the returned values changes what a later calcular()
\* returns, that is, once set the cache keeps its contents.
C16_CacheImutavel ==
    [][an._metricas_cache # <<>> => an'._metricas_cache = an._metricas_cache]_vars

\* C19: an epoch list whose epoch numbers are not 1, 2, 3, ... without gap is
\* not analysed: a data-shape error is reported in place of a bundle, so every
\* bundle calcular() returns has its per-epoch entries numbered 1..n.
C19_EpocasBemFormadas ==
    retorno # <<>> =>
        \A i \in 1..Len(retorno[1].valor.epocas_detalhes) :
            retorno[1].valor.epocas_detalhes[i].epoca = i

\* the improvement between epochs as the claims define it, from the 'melhor'
\* values of the per-epoch entries of a bundle (index 1 here is index 0 there)
BsfDe(m) ==
    [ i \in 1..Len(m.epocas_detalhes) |->
        MinDe({m.epocas_detalhes[j].melhor : j \in 1..i}) ]

Melhorias(m) ==
    LET bsf == BsfDe(m)
    IN [ i \in 1..Len(bsf) |->
           IF i = 1 THEN RZero
           ELSE IF bsf[i - 1] # 0
                THEN Rac(bsf[i - 1] - bsf[i], Abs(bsf[i - 1]))
                ELSE RZero ]

\* a >= b on floats
RMaiorOuIgual(a, b) == a # RNaN /\ b # RNaN /\ ~RMenor(a, b)

\* C21: for a run with at least one epoch, taxa_melhoria_media is the mean and
\* taxa_melhoria_max the maximum of the improvements over the indices 1..n-1,
\* every improvement is >= 0 and taxa_melhoria_max >= taxa_melhoria_media.
C21_TaxasDeMelhoria ==
    (retorno # <<>> /\ retorno[1].valor.total_epocas >= 1) =>
        LET m == retorno[1].valor
            n == m.total_epocas
            imp == Melhorias(m)
        IN /\ \A i \in 1..n : RMaiorOuIgual(imp[i], RZero)
           /\ m.taxa_melhoria_media =
                 (IF n = 1 THEN RNaN
                  ELSE LET t == SomaRac(Tail(imp)) IN Rac(t.n, t.d * (n - 1)))
           /\ \E i \in 2..n :
                 /\ m.taxa_melhoria_max = imp[i]
                 /\ \A j \in 2..n : RMaiorOuIgual(imp[i], imp[j])
           /\ RMaiorOuIgual(m.taxa_melhoria_max, m.taxa_melhoria_media)

\* C22: with at least two epochs epoca_mais_produtiva is the first index i in
\* 1..n-1 of maximum improvement, and melhoria_na_melhor_epoca is that
\* improvement and equals taxa_melhoria_max; with at most one epoch both are 0.
C22_EpocaMaisProdutiva ==
    retorno # <<>> =>
        LET m == retorno[1].valor
            n == m.total_epocas
            imp == Melhorias(m)
            i == m.epoca_mais_produtiva
        IN IF n <= 1
           THEN i = 0 /\ m.melhoria_na_melhor_epoca = RZero
           ELSE /\ i \in 1..n - 1
                /\ \A j \in 1..n - 1 : RMaiorOuIgual(imp[i + 1], imp[j + 1])
                /\ \A j \in 1..i - 1 : RMenor(imp[j + 1], imp[i + 1])
                /\ m.melhoria_na_melhor_epoca = imp[i + 1]
                /\ m.melhoria_na_melhor_epoca = m.taxa_melhoria_max

\* C22 witness: three epochs whose best halves twice, so that both transitions
\* improve by 1/2: the first one is reported.
C22_Witness ==
    /\ retorno # <<>>
    /\ retorno[1].valor.total_epocas = 3
    /\ Melhorias(retorno[1].valor) = <<RZero, [n |-> 1, d |-> 2], [n |-> 1, d |-> 2]>>
    /\ retorno[1].valor.epoca_mais_produtiva = 1
    /\ retorno[1].valor.melhoria_na_melhor_epoca = [n |-> 1, d |-> 2]

\* C23: viabilidade_por_epoca has one entry per epoch, in epoch order; with P
\* the population size (1 when None or 0) and n flags, the entry at position i
\* (0-based) covers the flags at [i*P, min(i*P + P, n)): total is the block
\* length (<= P), viaveis the number of true flags in it (<= total), percentual
\* = viaveis / total * 100, or 0 for an empty block.
C23_ViabilidadePorEpoca ==
    retorno # <<>> =>
        LET m == retorno[1].valor
            v == m.viabilidade_por_epoca
            flags == an._viavel
            n == Len(flags)
            P == IF rastreio.pop_size \in {None, 0} THEN 1 ELSE rastreio.pop_size
            Bloco(i) == {j \in 1..n : i * P < j /\ j <= i * P + P}
        IN /\ Len(v) = m.total_epocas
           /\ \A k \in 1..Len(v) :
                 /\ v[k].epoca = m.epocas_detalhes[k].epoca
                 /\ v[k].total = Cardinality(Bloco(k - 1))
                 /\ v[k].total <= P
                 /\ v[k].viaveis = Cardinality({j \in Bloco(k - 1) : flags[j]})
                 /\ v[k].viaveis <= v[k].total
                 /\ IF v[k].total = 0 THEN v[k].percentual = RZero
                    ELSE v[k].percentual.n * v[k].total
                           = v[k].viaveis * 100 * v[k].percentual.d

\* C23 witness: three evaluations, population size 2, two epochs: the second
\* block is short and infeasible, the first holds one feasible evaluation.
C23_Witness ==
    /\ retorno # <<>>
    /\ rastreio.pop_size = 2
    /\ an._viavel = <<TRUE, FALSE, FALSE>>
    /\ Len(retorno[1].valor.viabilidade_por_epoca) = 2
    /\ retorno[1].valor.viabilidade_por_epoca[1].viaveis = 1
    /\ retorno[1].valor.viabilidade_por_epoca[1].percentual = [n |-> 50, d |-> 1]
    /\ retorno[1].valor.viabilidade_por_epoca[2].total = 1
    /\ retorno[1].valor.viabilidade_por_epoca[2].percentual = RZero

\* the sum of the field campo over the entries of a list
RECURSIVE SomaCampo(_, _)
SomaCampo(lista, campo) ==
    IF lista = <<>> THEN 0 ELSE lista[1][campo] + SomaCampo(Tail(lista), campo)

\* C29: the per-epoch feasibility blocks cover the whole evaluation stream: the
\* 'total' fields add up to total_avaliacoes and the 'viaveis' fields to
\* avaliacoes_viaveis.
C29_BlocosCobremTudo ==
    retorno # <<>> =>
        /\ SomaCampo(retorno[1].valor.viabilidade_por_epoca, "total")
              = retorno[1].valor.total_avaliacoes
        /\ SomaCampo(retorno[1].valor.viabilidade_por_epoca, "viaveis")
              = retorno[1].valor.avaliacoes_viaveis

\* the evaluations of the analyzer's snapshot that are feasible and have a
\* defined value in the series campo
ViaveisCom(campo) == {j \in 1..Len(an._viavel) : an._viavel[j] /\ campo[j] # NaN}

\* C24: custo_real_melhor is the minimum cost over exactly the feasible
\* evaluations with a defined cost, pressao_min_minima and pressao_min_maxima
\* the minimum and maximum pressure over exactly the feasible evaluations with
\* a defined pressure; when no such evaluation exists every metric of the group
\* is NaN, and calcular() returns a bundle all the same.
C24_MetricasSomenteViaveis ==
    (an.estado = "construido" /\ retorno # <<>>) =>
        LET m == retorno[1].valor
            C == ViaveisCom(an._custo_real)
            Pr == ViaveisCom(an._pressao_min)
        IN /\ IF C = {}
              THEN /\ m.custo_real_melhor = RNaN
                   /\ m.custo_real_medio = RNaN
                   /\ m.custo_real_mediano = RNaN
                   /\ m.custo_real_desvio = [raiz |-> RNaN]
              ELSE /\ \E j \in C : m.custo_real_melhor = Float(an._custo_real[j])
                   /\ \A j \in C :
                         ~RMenor(Float(an._custo_real[j]), m.custo_real_melhor)
           /\ IF Pr = {}
              THEN /\ m.pressao_min_minima = RNaN
                   /\ m.pressao_min_media = RNaN
                   /\ m.pressao_min_maxima = RNaN
              ELSE /\ \E j \in Pr : m.pressao_min_minima = Float(an._pressao_min[j])
                   /\ \E j \in Pr : m.pressao_min_maxima = Float(an._pressao_min[j])
                   /\ \A j \in Pr :
                         /\ ~RMenor(Float(an._pressao_min[j]), m.pressao_min_minima)
                         /\ ~RMenor(m.pressao_min_maxima, Float(an._pressao_min[j]))

\* C24 witness: the cheapest evaluation, which also has the highest pressure,
\* is infeasible, so the bundle reports the cost and the pressure of the
\* feasible one.
C24_Witness ==
    /\ an.estado = "construido"
    /\ retorno # <<>>
    /\ an._viavel = <<FALSE, TRUE>>
    /\ an._custo_real = <<1, 2>>
    /\ an._pressao_min = <<2, 1>>
    /\ retorno[1].valor.custo_real_melhor = [n |-> 2, d |-> 1]
    /\ retorno[1].valor.pressao_min_maxima = [n |-> 1, d |-> 1]

\* C24 witness: an all-infeasible run with costs and pressures yields a bundle
\* whose feasible-only metrics are NaN.
C24_WitnessInviavel ==
    /\ an.estado = "construido"
    /\ retorno # <<>>
    /\ an._viavel = <<FALSE, FALSE>>
    /\ an._custo_real = <<1, 2>>
    /\ retorno[1].valor.custo_real_melhor = RNaN
    /\ retorno[1].valor.pressao_min_minima = RNaN

\* the analyzer was built on the tracker as it is now and has computed
AnalisadorEmDia ==
    /\ an.estado = "construido"
    /\ retorno # <<>>
    /\ an._viavel = obter_historico_viavel(tracker)
    /\ an._custo_real = obter_historico_custo_real(tracker)

\* C28: when a feasible record has a defined cost, melhor_custo_real equals the
\* last element of acumular_melhor_custo_real(), the statistics entry
\* melhor_custo_real and custo_real_melhor of an analyzer built on the tracker;
\* otherwise melhor_custo_real is +inf, the accumulated series is NaN at every
\* index and the statistics have no key melhor_custo_real.
C28_MelhorCustoConcorda ==
    LET n == Len(tracker.historico_bruto)
        tem == \E j \in 1..n :
                  tracker.historico_viavel[j] /\ tracker.historico_custo_real[j] # NaN
        op == IF saida = <<>> THEN "nenhuma" ELSE saida[1].op
    IN IF tem
       THEN /\ op = "acumular_melhor_custo_real" =>
                  /\ Len(saida[1].serie) = n
                  /\ saida[1].serie[n] = tracker.melhor_custo_real
            /\ op = "obter_estatisticas" =>
                  /\ "melhor_custo_real" \in DOMAIN saida[1].stats
                  /\ saida[1].stats.melhor_custo_real = Float(tracker.melhor_custo_real)
            /\ AnalisadorEmDia =>
                  retorno[1].valor.custo_real_melhor = Float(tracker.melhor_custo_real)
       ELSE /\ tracker.melhor_custo_real = Inf
            /\ op = "acumular_melhor_custo_real" =>
                  /\ Len(saida[1].serie) = n
                  /\ \A j \in 1..n : saida[1].serie[j] = NaN
            /\ op = "obter_estatisticas" =>
                  "melhor_custo_real" \notin DOMAIN saida[1].stats

\* C28 witness: the cheapest evaluation is infeasible and a dearer one is
\* feasible; the statistics are read beside an analyzer that has computed on
\* the same two evaluations, and all report the feasible cost.
C28_Witness ==
    /\ tracker.historico_custo_real = <<1, 2>>
    /\ tracker.historico_viavel = <<FALSE, TRUE>>
    /\ tracker.melhor_custo_real = 2
    /\ saida # <<>>
    /\ saida[1].op = "obter_estatisticas"
    /\ saida[1].stats.melhor_custo_real = [n |-> 2, d |-> 1]
    /\ AnalisadorEmDia
    /\ retorno[1].valor.custo_real_melhor = [n |-> 2, d |-> 1]

\* the step is one of the analyzer: a construction, a calcular() or to_dict(),
\* a ranking or an export
PassoDoAnalisador ==
    \/ an' # an
    \/ construcao' # construcao
    \/ retorno' # retorno
    \/ /\ saida' # <<>>
       /\ saida'[1].op \in {"to_dict", "exibir_ranking_epocas", "exportar_json"}

\* C25: no step of the analyzer changes the tracker (histories, running bests,
\* iteracao_atual), its epoch list and population size, or, once the analyzer
\* is built, the result it was built from.
C25_EntradasIntactas ==
    [][PassoDoAnalisador =>
          /\ tracker' = tracker
          /\ rastreio' = rastreio
          /\ an.estado = "construido" => construcao'.resultado = construcao.resultado]_vars

\* C25 witness: a bundle computed and exported from a tracker that holds
\* evaluations and epochs, which are all still there.
C25_Witness ==
    /\ saida # <<>>
    /\ saida[1].op = "exportar_json"
    /\ retorno # <<>>
    /\ retorno[1].valor.total_epocas = 2
    /\ Len(rastreio.epocas) = 2
    /\ Len(tracker.historico_bruto) = 2
    /\ tracker.iteracao_atual = 2
    /\ construcao.resultado.dado

\* C30: the metrics of one bundle describe one instant of the tracker.  In the
\* search loop of SpecBusca the tracker holds e epochs and n evaluations with
\* e * P <= n <= (e + 1) * P at every instant, and both only grow, so the
\* bundle describes an instant exactly when its total_avaliacoes and its
\* total_epocas are related in that way.
C30_UmSoInstante ==
    (an.estado = "construido" /\ retorno # <<>>) =>
        LET m == retorno[1].valor
            P == rastreio.pop_size
        IN /\ m.total_epocas * P <= m.total_avaliacoes
           /\ m.total_avaliacoes <= (m.total_epocas + 1) * P

----------------------------------------------------------------------------
(* Properties of the ranking *)

\* C11: a ranking lists the first top_n entries of the per-epoch detail list
\* sorted by the criterion, ascending for melhor, media and desvio, descending
\* for every other criterion; a row keeps the epoch number and values of its
\* entry, and entries of equal key stay in chronological order.  The row at
\* rank i is the entry that exactly i - 1 entries precede in that order.
C11_RankingEpocas ==
    (saida # <<>> /\ saida[1].op = "exibir_ranking_epocas") =>
        LET r == saida[1]
            det == an._metricas_cache[1].epocas_detalhes
            asc == r.criterio \in {"melhor", "media", "desvio"}
            Antes(x, y) ==
                LET kx == ChaveRanking(det[x], r.criterio)
                    ky == ChaveRanking(det[y], r.criterio)
                IN \/ IF asc THEN RMenor(kx, ky) ELSE RMenor(ky, kx)
                   \/ kx = ky /\ x < y
        IN /\ r.sem_dados <=> det = <<>>
           /\ Len(r.linhas) = Min2(r.top_n, Len(det))
           /\ \A i \in 1..Len(r.linhas) :
                 \E j \in 1..Len(det) :
                    /\ r.linhas[i] = [ epoca |-> det[j].epoca, bsf |-> det[j].bsf,
                                       melhor |-> det[j].melhor, media |-> det[j].media,
                                       desvio |-> det[j].desvio ]
                    /\ Cardinality({l \in 1..Len(det) : Antes(l, j)}) = i - 1

\* C11 witness: a ranking by 'pior' of three epochs whose first and third have
\* the same worst fitness: top 2 lists epoch 2, then epoch 1.
C11_Witness ==
    /\ saida # <<>>
    /\ saida[1].op = "exibir_ranking_epocas"
    /\ saida[1].criterio = "pior"
    /\ saida[1].top_n = 2
    /\ Len(an._metricas_cache[1].epocas_detalhes) = 3
    /\ an._metricas_cache[1].epocas_detalhes[1].pior
          = an._metricas_cache[1].epocas_detalhes[3].pior
    /\ Len(saida[1].linhas) = 2
    /\ saida[1].linhas[1].epoca = 2
    /\ saida[1].linhas[2].epoca = 1

----------------------------------------------------------------------------
(* Properties of the export *)

\* a float as the claim wants it written: null for NaN and Inf, else its value
JsonFloatSaneado(x) ==
    IF x \in {RNaN, RInf, [raiz |-> RNaN], [raiz |-> RInf]}
    THEN [token |-> "null", valor |-> RZero]
    ELSE [token |-> "numero", valor |-> x]

\* C12: exportar_json never emits NaN or Infinity: every NaN/Inf of the bundle,
\* among the top-level scalars, the per-epoch entries and the feasibility list,
\* is written as null and every other float is written with its value.
C12_ExportSemNaN ==
    (saida # <<>> /\ saida[1].op = "exportar_json") =>
        LET doc == saida[1]
            m == an._metricas_cache[1]
        IN /\ \A k \in ChavesFloat : doc.escalares[k] = JsonFloatSaneado(m[k])
           /\ \A i \in 1..Len(doc.epocas_detalhes) :
                 /\ doc.epocas_detalhes[i].media = JsonFloatSaneado(m.epocas_detalhes[i].media)
                 /\ doc.epocas_detalhes[i].desvio = JsonFloatSaneado(m.epocas_detalhes[i].desvio)
                 /\ doc.epocas_detalhes[i].q25 = JsonFloatSaneado(m.epocas_detalhes[i].q25)
                 /\ doc.epocas_detalhes[i].q75 = JsonFloatSaneado(m.epocas_detalhes[i].q75)
           /\ \A i \in 1..Len(doc.viabilidade_por_epoca) :
                 doc.viabilidade_por_epoca[i].percentual
                    = JsonFloatSaneado(m.viabilidade_por_epoca[i].percentual)

====
